---- MODULE Spec2Model ----
(***************************************************************************)
(* Model of the atlas indexer's ingestion loop                             *)
(* (backend/crates/atlas-indexer/src/indexer.rs): the window loop of       *)
(* Indexer::run with its reorder buffer, collect_block, write_batch, the   *)
(* failed-block sideline, and the supervisor of main.rs that restarts the  *)
(* loop after an error.                                                    *)
(***************************************************************************)
EXTENDS Integers, Sequences, FiniteSets, TLC

\* ------------------------------------------------------------------------
\* Bounds of the model
\* ------------------------------------------------------------------------

\* Highest block number of the chain: the head eth_blockNumber reports.
MaxBlock == 3

\* Config.batch_size (BATCH_SIZE): the window size of the main loop.
BatchSize == 3

\* How many results of the workers' main fetch may be FetchResult::Error
\* over the whole execution (a sideline retry may always fail).
MaxFetchErrors == 1

\* How many times Indexer::run may return Err (database or head failure).
MaxRunErrors == 1

\* Largest `count` of a call of fetch_blocks_batch (Config.rpc_batch_size).
MaxCount == 2

\* How many times the closure of one run_with_retry may return Err.
MaxFailures == 6

\* Highest partition number a block of a call of ensure_partitions_exist
\* falls into.
MaxPartition == 2

\* Largest Config.fetch_workers of the worker pool.
MaxWorkers == 2

\* Largest Config.metadata_fetch_workers, the number of rows of each of
\* nft_contracts, erc20_contracts and nft_tokens, and how many metadata
\* tasks may end on a failed UPDATE.
MaxMetaWorkers == 2
MaxTargets == 3
MaxStoreFailures == 1

\* The longest address string a request carries, and how many times the
\* handler's normalisation is applied to it.
MaxAddressLen == 4
MaxCalls == 2

\* The chain head the main loop of the worker pool sees.
MaxPoolBlock == 4

\* ------------------------------------------------------------------------
\* Program constants
\* ------------------------------------------------------------------------

\* Config.start_block default (START_BLOCK).
StartBlock == 0

\* Number of sideline attempts: `for attempt in 1..=3`.
SidelineAttempts == 3

\* Retry delays of the RPC calls, in seconds, and the number of attempts.
RPC_RETRY_DELAYS == << 2, 5, 10, 20, 30 >>
RPC_MAX_RETRIES == 10

ZERO_ADDRESS == "0x0"
TRANSFER_TOPIC == "Transfer"

\* Option::None for an address column (to_address, contract_created).
NoAddr == "none"

\* topics.first() of a log without topics (an anonymous event, LOG0).
NoTopic == "none"

\* indexer_state has no 'last_indexed_block' row.
NoWatermark == -1

\* ------------------------------------------------------------------------
\* The chain: what the RPC returns for a block (FetchedBlock)
\* ------------------------------------------------------------------------

Tx(from, to, created) == [from |-> from, to |-> to, created |-> created]

\* One log of a receipt: emitter, topic0, number of topics, the addresses in
\* topics[1] and topics[2], the uint256 of topics[3] (ERC-721) or of the
\* first 32 data bytes (ERC-20), and the length of the data.
Log(tx, address, topic0, ntopics, from, to, amount, datalen) ==
    [tx |-> tx, address |-> address, topic0 |-> topic0, ntopics |-> ntopics,
     from |-> from, to |-> to, amount |-> amount, datalen |-> datalen]

Erc20Log(tx, c, from, to, v) == Log(tx, c, TRANSFER_TOPIC, 3, from, to, v, 32)
NftLog(tx, c, from, to, id) == Log(tx, c, TRANSFER_TOPIC, 4, from, to, id, 0)

\* The block contents the model draws from: txs in block order, logs in the
\* order `for receipt in receipts { for log in receipt.logs() }` visits them
\* (log_index = position - 1, field tx = index of the emitting transaction).
EmptyBlock == [txs |-> << >>, logs |-> << >>]

MintBlock ==
    [txs  |-> << Tx("0xa", "0xb", NoAddr) >>,
     logs |-> << Erc20Log(1, "0xc20", ZERO_ADDRESS, "0xa", 2),
                 NftLog(1, "0xnft", ZERO_ADDRESS, "0xa", 7),
                 Erc20Log(1, "0xc20", "0xa", "0xb", 1) >>]

MoveBlock ==
    [txs  |-> << Tx("0xb", NoAddr, "0xnft"),
                 Tx("0xa", NoAddr, "0xnew"),
                 Tx("0xa", "0xa", NoAddr) >>,
     logs |-> << NftLog(1, "0xnft", "0xb", "0xa", 7),
                 NftLog(1, "0xnft", "0xa", "0xb", 7),
                 Erc20Log(1, "0xc20", "0xb", ZERO_ADDRESS, 1),
                 Log(1, "0xc20", "Approval", 3, "0xa", "0xb", 1, 32),
                 Log(1, "0xanon", NoTopic, 0, NoAddr, NoAddr, 0, 0) >>]

BlockContents == {EmptyBlock, MintBlock, MoveBlock}

Blocks == 0..MaxBlock

\* The chains the model draws: the contents of the even blocks and of the
\* odd blocks are chosen independently.
Chains ==
    {[n \in Blocks |-> IF n % 2 = 0 THEN x ELSE y] : x, y \in BlockContents}

VARIABLES
    chain,          \* block number -> contents the RPC serves for it
    db,             \* the PostgreSQL tables the indexer writes
    pc,             \* where Indexer::run / the supervisor stands
    known_erc20,    \* run(): HashSet of known ERC-20 contracts
    known_nft,      \* run(): HashSet of known NFT contracts
    current_block,  \* run(): first block of the current window
    end_block,      \* run(): last block of the current window
    inflight,       \* blocks of the window whose FetchResult is not yet received
    buffer,         \* run(): reorder buffer (its key set)
    next_to_process,\* run(): next block number to collect
    blocks_received,\* run(): results received for this window
    failed_blocks,  \* run(): Vec of blocks whose fetch failed
    still_failed,   \* run(): Vec built by one sideline attempt
    attempt,        \* run(): sideline attempt 1..3
    retry_idx,      \* run(): position in failed_blocks of the sideline loop
    batch,          \* run(): the BlockBatch being collected
    fetch_errors,   \* number of FetchResult::Error received from the workers so far
    run_errors,     \* number of times run() returned Err so far
    hist,           \* history: what the current window has done (for the properties)
    fetch,          \* the locals of one call of fetch_blocks_batch
    sent,           \* the last outbound JSON-RPC request of the process
    sup,            \* main(): the locals of each run_with_retry
    parts,          \* the partitions of the database and ensure_partitions_exist
    pool,           \* run(): the channels, the fetch workers and the dispatchers
    meta,           \* MetadataFetcher::run and the metadata_fetched columns
    sse,            \* atlas-api: one connected stream of GET /api/events
    norm            \* atlas-api: an address parameter and what normalize_address returned

\* The variables of Indexer::run and of the supervisor.
indexer_vars ==
    << chain, db, pc, known_erc20, known_nft, current_block, end_block,
       inflight, buffer, next_to_process, blocks_received, failed_blocks,
       still_failed, attempt, retry_idx, batch, fetch_errors, run_errors,
       hist >>

\* The variables of the RPC side: a fetcher's call and the requests sent.
rpc_vars == << fetch, sent >>

\* The variables of the tasks of main() other than Indexer::run, and of the
\* API process.
task_vars == << sup, parts, pool, meta, sse, norm >>

\* What a step of one task leaves alone.
other_than_sup == << indexer_vars, rpc_vars, parts, pool, meta, sse, norm >>
other_than_parts == << indexer_vars, rpc_vars, sup, pool, meta, sse, norm >>
other_than_pool == << indexer_vars, rpc_vars, sup, parts, meta, sse, norm >>
other_than_meta == << indexer_vars, rpc_vars, sup, parts, pool, sse, norm >>
other_than_sse == << indexer_vars, rpc_vars, sup, parts, pool, meta, norm >>
other_than_norm == << indexer_vars, rpc_vars, sup, parts, pool, meta, sse >>

\* What an UPDATE of another process on the indexer's tables leaves alone.
other_than_db ==
    << chain, pc, known_erc20, known_nft, current_block, end_block,
       inflight, buffer, next_to_process, blocks_received, failed_blocks,
       still_failed, attempt, retry_idx, batch, fetch_errors, run_errors,
       hist, rpc_vars, task_vars >>

vars == << indexer_vars, rpc_vars, task_vars >>


\* ------------------------------------------------------------------------
\* BlockBatch (indexer.rs:78-253)
\* ------------------------------------------------------------------------

EmptyMap == [x \in {} |-> 0]

Range(f) == {f[k] : k \in DOMAIN f}

\* HashMap::insert / entry().or_insert followed by an update of the entry.
Put(f, k, v) == [x \in (DOMAIN f) \cup {k} |-> IF x = k THEN v ELSE f[x]]

\* BlockBatch::new. The parallel column vectors of one table are one
\* sequence of rows.
NewBatch ==
    [b_rows |-> << >>, t_rows |-> << >>, tl_rows |-> << >>,
     addr_map |-> EmptyMap, el_rows |-> << >>,
     nft_contract_rows |-> << >>, nt_rows |-> << >>,
     nft_token_map |-> EmptyMap,
     ec_rows |-> << >>, et_rows |-> << >>,
     balance_map |-> EmptyMap,
     new_erc20 |-> {}, new_nft |-> {},
     last_block |-> 0]

\* BlockBatch::touch_addr
touch_addr(b, address, block_num, is_contract, tx_count_delta) ==
    LET entry == IF address \in DOMAIN b.addr_map
                 THEN b.addr_map[address]
                 ELSE [first_seen_block |-> block_num, is_contract |-> FALSE,
                       tx_count_delta |-> 0]
        upd == [first_seen_block |-> IF block_num < entry.first_seen_block
                                     THEN block_num ELSE entry.first_seen_block,
                is_contract |-> entry.is_contract \/ is_contract,
                tx_count_delta |-> entry.tx_count_delta + tx_count_delta]
    IN [b EXCEPT !.addr_map = Put(b.addr_map, address, upd)]

\* BlockBatch::apply_balance_delta
apply_balance_delta(b, address, contract, delta, block) ==
    LET k == << address, contract >>
        entry == IF k \in DOMAIN b.balance_map
                 THEN b.balance_map[k]
                 ELSE [delta |-> 0, last_block |-> block]
        upd == [delta |-> entry.delta + delta,
                last_block |-> IF block > entry.last_block
                               THEN block ELSE entry.last_block]
    IN [b EXCEPT !.balance_map = Put(b.balance_map, k, upd)]

\* ------------------------------------------------------------------------
\* collect_block (indexer.rs:560-733)
\* ------------------------------------------------------------------------

\* The hash of the idx-th transaction of block n (unique per transaction).
TxHash(n, idx) == << n, idx >>

\* The transaction loop's body with the created contract counted like a
\* receiver: touch_addr(addr, block_num, true, 1).
CollectTxCreatedCounted(b, n, idx, t) ==
    LET row == [hash |-> TxHash(n, idx), block_number |-> n, block_index |-> idx - 1,
                from |-> t.from, to |-> t.to, contract_created |-> t.created]
        b1 == [b EXCEPT !.t_rows = Append(@, row),
                        !.tl_rows = Append(@, [hash |-> TxHash(n, idx), block_number |-> n])]
        b2 == touch_addr(b1, t.from, n, FALSE, 1)
        b3 == IF t.to # NoAddr THEN touch_addr(b2, t.to, n, FALSE, 1) ELSE b2
    IN IF t.created # NoAddr THEN touch_addr(b3, t.created, n, TRUE, 1) ELSE b3

\* The body of `for (idx, transaction) in txs.iter().enumerate()`.
CollectTx(b, n, idx, t) ==
    LET row == [hash |-> TxHash(n, idx), block_number |-> n, block_index |-> idx - 1,
                from |-> t.from, to |-> t.to, contract_created |-> t.created]
        b1 == [b EXCEPT !.t_rows = Append(@, row),
                        !.tl_rows = Append(@, [hash |-> TxHash(n, idx), block_number |-> n])]
        b2 == touch_addr(b1, t.from, n, FALSE, 1)
        b3 == IF t.to # NoAddr THEN touch_addr(b2, t.to, n, FALSE, 1) ELSE b2
    IN IF t.created # NoAddr THEN touch_addr(b3, t.created, n, TRUE, 0) ELSE b3

RECURSIVE CollectTxs(_, _, _, _)
CollectTxs(b, n, txs, idx) ==
    IF idx > Len(txs) THEN b
    ELSE CollectTxs(CollectTx(b, n, idx, txs[idx]), n, txs, idx + 1)

\* The ERC-721 arm registering every contract that is not in known_nft,
\* without looking at batch.new_nft.
CollectNftTransferKnownOnly(b, known_nft_, n, li, log) ==
    LET contract == log.address
        b1 == IF contract \notin known_nft_
              THEN touch_addr(
                     [b EXCEPT !.new_nft = @ \cup {contract},
                               !.nft_contract_rows =
                                   Append(@, [address |-> contract, first_seen_block |-> n])],
                     contract, n, TRUE, 0)
              ELSE b
        row == [tx_hash |-> TxHash(n, log.tx), log_index |-> li,
                contract |-> contract, token_id |-> log.amount,
                from |-> log.from, to |-> log.to, block_number |-> n]
    IN [b1 EXCEPT !.nt_rows = Append(@, row),
                  !.nft_token_map =
                      Put(@, << contract, log.amount >>,
                          [owner |-> log.to, last_transfer_block |-> n])]

\* The ERC-721 arm (topics.len() == 4).
CollectNftTransfer(b, known_nft_, n, li, log) ==
    LET contract == log.address
        isNew == contract \notin known_nft_ /\ contract \notin b.new_nft
        b1 == IF isNew
              THEN touch_addr(
                     [b EXCEPT !.new_nft = @ \cup {contract},
                               !.nft_contract_rows =
                                   Append(@, [address |-> contract, first_seen_block |-> n])],
                     contract, n, TRUE, 0)
              ELSE b
        row == [tx_hash |-> TxHash(n, log.tx), log_index |-> li,
                contract |-> contract, token_id |-> log.amount,
                from |-> log.from, to |-> log.to, block_number |-> n]
    IN [b1 EXCEPT !.nt_rows = Append(@, row),
                  !.nft_token_map =
                      Put(@, << contract, log.amount >>,
                          [owner |-> log.to, last_transfer_block |-> n])]

\* The ERC-20 arm without its two zero-address tests: both sides of every
\* transfer get a balance delta.
CollectErc20TransferNoZeroTest(b, known_erc20_, n, li, log) ==
    LET contract == log.address
        isNew == contract \notin known_erc20_ /\ contract \notin b.new_erc20
        b1 == IF isNew
              THEN touch_addr(
                     [b EXCEPT !.new_erc20 = @ \cup {contract},
                               !.ec_rows =
                                   Append(@, [address |-> contract, first_seen_block |-> n])],
                     contract, n, TRUE, 0)
              ELSE b
        row == [tx_hash |-> TxHash(n, log.tx), log_index |-> li,
                contract |-> contract, from |-> log.from, to |-> log.to,
                value |-> log.amount, block_number |-> n]
        b2 == [b1 EXCEPT !.et_rows = Append(@, row)]
        b3 == apply_balance_delta(b2, log.from, contract, 0 - log.amount, n)
    IN apply_balance_delta(b3, log.to, contract, log.amount, n)

\* The ERC-20 arm (topics.len() == 3 and at least 32 bytes of data).
CollectErc20Transfer(b, known_erc20_, n, li, log) ==
    LET contract == log.address
        isNew == contract \notin known_erc20_ /\ contract \notin b.new_erc20
        b1 == IF isNew
              THEN touch_addr(
                     [b EXCEPT !.new_erc20 = @ \cup {contract},
                               !.ec_rows =
                                   Append(@, [address |-> contract, first_seen_block |-> n])],
                     contract, n, TRUE, 0)
              ELSE b
        row == [tx_hash |-> TxHash(n, log.tx), log_index |-> li,
                contract |-> contract, from |-> log.from, to |-> log.to,
                value |-> log.amount, block_number |-> n]
        b2 == [b1 EXCEPT !.et_rows = Append(@, row)]
        b3 == IF log.from # ZERO_ADDRESS
              THEN apply_balance_delta(b2, log.from, contract, 0 - log.amount, n)
              ELSE b2
    IN IF log.to # ZERO_ADDRESS
       THEN apply_balance_delta(b3, log.to, contract, log.amount, n)
       ELSE b3

\* The body of `for log in receipt.inner.logs()`. A log without topic0 is
\* skipped by `None => continue` before anything is pushed.
CollectLog(b, known_erc20_, known_nft_, n, li, log) ==
    LET row == [tx_hash |-> TxHash(n, log.tx), log_index |-> li,
                address |-> log.address, topic0 |-> log.topic0, block_number |-> n]
        b1 == touch_addr([b EXCEPT !.el_rows = Append(@, row)],
                         log.address, n, TRUE, 0)
    IN IF log.ntopics = 0 THEN b
       ELSE IF log.topic0 # TRANSFER_TOPIC THEN b1
       ELSE IF log.ntopics = 4 THEN CollectNftTransfer(b1, known_nft_, n, li, log)
       ELSE IF log.ntopics = 3 /\ log.datalen >= 32
            THEN CollectErc20Transfer(b1, known_erc20_, n, li, log)
       ELSE b1

RECURSIVE CollectLogs(_, _, _, _, _, _)
CollectLogs(b, known_erc20_, known_nft_, n, logs, i) ==
    IF i > Len(logs) THEN b
    ELSE CollectLogs(CollectLog(b, known_erc20_, known_nft_, n, i - 1, logs[i]),
                     known_erc20_, known_nft_, n, logs, i + 1)

\* collect_block(batch, known_erc20, known_nft, fetched) for block n with
\* contents blk.
collect_block(b, known_erc20_, known_nft_, n, blk) ==
    LET b1 == [b EXCEPT !.b_rows =
                   Append(@, [number |-> n, transaction_count |-> Len(blk.txs)])]
        b2 == CollectTxs(b1, n, blk.txs, 1)
        b3 == CollectLogs(b2, known_erc20_, known_nft_, n, blk.logs, 1)
    IN [b3 EXCEPT !.last_block = n]


\* ------------------------------------------------------------------------
\* The database and write_batch (indexer.rs:740-1025)
\* ------------------------------------------------------------------------

\* The tables after the migrations ran on an empty database. Keyed tables
\* are maps from the key of their unique constraint to the row.
EmptyDb ==
    [blocks |-> EmptyMap, transactions |-> EmptyMap, tx_hash_lookup |-> EmptyMap,
     addresses |-> EmptyMap, event_logs |-> EmptyMap,
     nft_contracts |-> EmptyMap, nft_transfers |-> EmptyMap, nft_tokens |-> EmptyMap,
     erc20_contracts |-> EmptyMap, erc20_transfers |-> EmptyMap,
     erc20_balances |-> EmptyMap,
     last_indexed_block |-> NoWatermark,
     failed_blocks |-> EmptyMap]

Max(a, b) == IF a >= b THEN a ELSE b
Min(a, b) == IF a <= b THEN a ELSE b

\* SQL NULL in a text column.
NoName == "NULL"

\* INSERT ... SELECT FROM unnest(...) ON CONFLICT (key) DO NOTHING: rows are
\* inserted in array order, a row whose key exists (also from an earlier row
\* of the same statement) is skipped. krows: sequence of << key, row >>.
RECURSIVE InsertDoNothing(_, _, _)
InsertDoNothing(tbl, krows, i) ==
    IF i > Len(krows) THEN tbl
    ELSE InsertDoNothing(
           IF krows[i][1] \in DOMAIN tbl THEN tbl
           ELSE Put(tbl, krows[i][1], krows[i][2]),
           krows, i + 1)

\* 1. blocks: ON CONFLICT (number) DO UPDATE SET <every column> = EXCLUDED.
UpsertBlocks(tbl, rows) ==
    LET nums == {rows[i].number : i \in 1..Len(rows)}
        rowOf(n) == rows[CHOOSE i \in 1..Len(rows) : rows[i].number = n]
    IN [n \in (DOMAIN tbl) \cup nums |->
            IF n \in nums THEN [transaction_count |-> rowOf(n).transaction_count]
            ELSE tbl[n]]

\* 2. transactions: ON CONFLICT (hash, block_number) DO NOTHING.
InsertTransactions(tbl, rows) ==
    InsertDoNothing(tbl,
        [i \in 1..Len(rows) |-> << << rows[i].hash, rows[i].block_number >>, rows[i] >>], 1)

\* tx_hash_lookup: ON CONFLICT (hash) DO NOTHING.
InsertTxHashLookup(tbl, rows) ==
    InsertDoNothing(tbl,
        [i \in 1..Len(rows) |-> << rows[i].hash, rows[i].block_number >>], 1)

\* The addresses upsert with `DO UPDATE SET col = EXCLUDED.col` for all three
\* columns: the batch's entry replaces the row.
UpsertAddressesExcludedWins(tbl, m) ==
    [a \in (DOMAIN tbl) \cup (DOMAIN m) |->
        IF a \notin DOMAIN m THEN tbl[a]
        ELSE [is_contract |-> m[a].is_contract,
              first_seen_block |-> m[a].first_seen_block,
              tx_count |-> m[a].tx_count_delta]]

\* 3. addresses: tx_count += EXCLUDED, is_contract OR, first_seen_block LEAST.
UpsertAddresses(tbl, m) ==
    [a \in (DOMAIN tbl) \cup (DOMAIN m) |->
        IF a \notin DOMAIN m THEN tbl[a]
        ELSE IF a \notin DOMAIN tbl
             THEN [is_contract |-> m[a].is_contract,
                   first_seen_block |-> m[a].first_seen_block,
                   tx_count |-> m[a].tx_count_delta]
        ELSE [is_contract |-> tbl[a].is_contract \/ m[a].is_contract,
              first_seen_block |-> Min(tbl[a].first_seen_block, m[a].first_seen_block),
              tx_count |-> tbl[a].tx_count + m[a].tx_count_delta]]

\* 4. / 6. / 9. event_logs, nft_transfers, erc20_transfers:
\* ON CONFLICT (tx_hash, log_index, block_number) DO NOTHING.
InsertLogRows(tbl, rows) ==
    InsertDoNothing(tbl,
        [i \in 1..Len(rows) |->
            << << rows[i].tx_hash, rows[i].log_index, rows[i].block_number >>, rows[i] >>], 1)

\* The columns the statement does not list take their defaults: the metadata
\* columns (name, symbol, total_supply) are NULL, metadata_fetched is false.
\* The model keeps `name` for the metadata columns.
NewContractRow(r) ==
    [first_seen_block |-> r.first_seen_block, name |-> NoName, metadata_fetched |-> FALSE]

\* The contract insert with `DO UPDATE SET col = EXCLUDED.col` for every
\* column: a contract registered again gets a fresh row.
InsertContractsExcludedWins(tbl, rows) ==
    LET addrs == {rows[i].address : i \in 1..Len(rows)}
        rowOf(a) == rows[CHOOSE i \in 1..Len(rows) : rows[i].address = a]
    IN [a \in (DOMAIN tbl) \cup addrs |->
            IF a \in addrs THEN NewContractRow(rowOf(a)) ELSE tbl[a]]

\* 5. / 8. nft_contracts, erc20_contracts: ON CONFLICT (address) DO NOTHING.
InsertContracts(tbl, rows) ==
    InsertDoNothing(tbl,
        [i \in 1..Len(rows) |-> << rows[i].address, NewContractRow(rows[i]) >>], 1)

\* The row the nft_tokens statement inserts: metadata_fetched = false, the
\* columns it does not list (token_uri, metadata, image_url, name) NULL. The
\* model keeps `token_uri` for them.
NewTokenRow(e) ==
    [owner |-> e.owner, last_transfer_block |-> e.last_transfer_block,
     token_uri |-> NoName, metadata_fetched |-> FALSE]

\* The upsert without its CASE: the owner is overwritten by every commit.
UpsertNftTokensLastCommitWins(tbl, m) ==
    [k \in (DOMAIN tbl) \cup (DOMAIN m) |->
        IF k \notin DOMAIN m THEN tbl[k]
        ELSE IF k \notin DOMAIN tbl
             THEN NewTokenRow(m[k])
        ELSE [tbl[k] EXCEPT
                !.owner = m[k].owner,
                !.last_transfer_block =
                    Max(tbl[k].last_transfer_block, m[k].last_transfer_block)]]

\* 7. nft_tokens: owner := EXCLUDED.owner when EXCLUDED.last_transfer_block
\* >= the row's, last_transfer_block := GREATEST.
UpsertNftTokens(tbl, m) ==
    [k \in (DOMAIN tbl) \cup (DOMAIN m) |->
        IF k \notin DOMAIN m THEN tbl[k]
        ELSE IF k \notin DOMAIN tbl
             THEN NewTokenRow(m[k])
        ELSE [tbl[k] EXCEPT
                !.owner = IF m[k].last_transfer_block >= tbl[k].last_transfer_block
                          THEN m[k].owner ELSE tbl[k].owner,
                !.last_transfer_block =
                    Max(tbl[k].last_transfer_block, m[k].last_transfer_block)]]

\* 10. erc20_balances: balance += EXCLUDED.balance, last_updated_block GREATEST.
UpsertBalances(tbl, m) ==
    [k \in (DOMAIN tbl) \cup (DOMAIN m) |->
        IF k \notin DOMAIN m THEN tbl[k]
        ELSE IF k \notin DOMAIN tbl
             THEN [balance |-> m[k].delta, last_updated_block |-> m[k].last_block]
        ELSE [balance |-> tbl[k].balance + m[k].delta,
              last_updated_block |-> Max(tbl[k].last_updated_block, m[k].last_block)]]

\* The watermark written as the next block to index.
SetWatermarkNextBlock(old, b) == b.last_block + 1

\* 11. indexer_state: ON CONFLICT (key) DO UPDATE SET value = $1, bound to
\* batch.last_block. write_batch takes no flag: every non-empty batch sets it.
SetWatermark(old, b) == b.last_block

\* write_batch(batch) when every statement and the commit succeed: the
\* tables after the transaction. An empty batch returns Ok without a write.
write_batch(d, b) ==
    IF b.b_rows = << >> THEN d
    ELSE [d EXCEPT
            !.blocks = UpsertBlocks(@, b.b_rows),
            !.transactions = InsertTransactions(@, b.t_rows),
            !.tx_hash_lookup = InsertTxHashLookup(@, b.tl_rows),
            !.addresses = UpsertAddresses(@, b.addr_map),
            !.event_logs = InsertLogRows(@, b.el_rows),
            !.nft_contracts = InsertContracts(@, b.nft_contract_rows),
            !.nft_transfers = InsertLogRows(@, b.nt_rows),
            !.nft_tokens = UpsertNftTokens(@, b.nft_token_map),
            !.erc20_contracts = InsertContracts(@, b.ec_rows),
            !.erc20_transfers = InsertLogRows(@, b.et_rows),
            !.erc20_balances = UpsertBalances(@, b.balance_map),
            !.last_indexed_block = SetWatermark(@, b)]

\* The statements write_batch executes on its transaction, in order: blocks,
\* transactions, tx_hash_lookup, addresses, event_logs, nft_contracts,
\* nft_transfers, nft_tokens, erc20_contracts, erc20_transfers,
\* erc20_balances, indexer_state.
WriteStatements == 12

\* The tables as the open transaction of write_batch sees them after the
\* first k statements.
write_batch_statements(d, b, k) ==
    [d EXCEPT
        !.blocks = IF k >= 1 THEN UpsertBlocks(@, b.b_rows) ELSE @,
        !.transactions = IF k >= 2 THEN InsertTransactions(@, b.t_rows) ELSE @,
        !.tx_hash_lookup = IF k >= 3 THEN InsertTxHashLookup(@, b.tl_rows) ELSE @,
        !.addresses = IF k >= 4 THEN UpsertAddresses(@, b.addr_map) ELSE @,
        !.event_logs = IF k >= 5 THEN InsertLogRows(@, b.el_rows) ELSE @,
        !.nft_contracts = IF k >= 6 THEN InsertContracts(@, b.nft_contract_rows) ELSE @,
        !.nft_transfers = IF k >= 7 THEN InsertLogRows(@, b.nt_rows) ELSE @,
        !.nft_tokens = IF k >= 8 THEN UpsertNftTokens(@, b.nft_token_map) ELSE @,
        !.erc20_contracts = IF k >= 9 THEN InsertContracts(@, b.ec_rows) ELSE @,
        !.erc20_transfers = IF k >= 10 THEN InsertLogRows(@, b.et_rows) ELSE @,
        !.erc20_balances = IF k >= 11 THEN UpsertBalances(@, b.balance_map) ELSE @,
        !.last_indexed_block = IF k >= 12 THEN SetWatermark(@, b) ELSE @]

\* Every statement takes effect when it is executed, as on a connection
\* without a transaction.
tx_autocommit(d, t) == t

\* write_batch returns Err through a `?` before tx.commit() returned Ok: the
\* sqlx Transaction is dropped and rolls back, the tables are those of
\* before pool.begin().
tx_rollback(d, t) == d


\* ------------------------------------------------------------------------
\* The state of the RPC side
\* ------------------------------------------------------------------------

\* No request was looked up yet.
NoElement == "none"

\* The locals of fetch_blocks_batch while no call is running. `acquired`
\* counts the rate-limiter tokens taken and not yet used by a send, `sleeps`
\* lists the sleeps of the retry loop, `i` is the index of the result loop,
\* block_resp and receipts_resp are the last two lookups in response_map.
FetchIdle ==
    [pc |-> "idle", start_block |-> 0, count |-> 0, acquired |-> 0,
     attempt |-> 0, last_error |-> "None", sleeps |-> << >>,
     i |-> 0, block_resp |-> NoElement, receipts_resp |-> NoElement,
     results |-> << >>]

\* An outbound request: its JSON-RPC method, the number of JSON-RPC calls in
\* it, and the rate-limiter tokens that were acquired for it.
Request(method, calls, tokens) == [method |-> method, calls |-> calls, tokens |-> tokens]

NoRequest == Request("none", 0, 0)


\* ------------------------------------------------------------------------
\* The state of the supervised tasks of main()
\* ------------------------------------------------------------------------

\* Retry delays of run_with_retry, in seconds.
RETRY_DELAYS == << 5, 10, 20, 30, 60 >>
MAX_RETRY_DELAY == 60

\* main() runs two closures under run_with_retry: indexer.run() on the main
\* task and MetadataFetcher::new(..)?.run() on a spawned task.
Tasks == {"indexer", "metadata"}

\* The locals of one run_with_retry at its first call of f(): `waits` lists
\* the delays it has slept so far.
SupervisorStart == [pc |-> "running", retry_count |-> 0, waits |-> << >>]

SupervisorsStart == [t \in Tasks |-> SupervisorStart]

\* Width of a partition in blocks.
PARTITION_SIZE == 10000000

\* The partitioned parent tables, in the order of the `tables` array.
PartitionedTables ==
    << "blocks", "transactions", "event_logs", "nft_transfers", "erc20_transfers" >>

\* The partition <parent>_p<k>.
Partition(table, k) == << table, k >>

\* The partitions p0 of all partitioned parents: what the schema creates.
InitialPartitions == {Partition(PartitionedTables[i], 0) : i \in 1..Len(PartitionedTables)}

\* Indexer::new: current_max_partition = AtomicU64::new(0); no call of
\* ensure_partitions_exist is running. `exists` is the set of partitions in
\* the database, `result` the outcome of the last call and `partition_num`
\* its block_number / PARTITION_SIZE.
PartitionsStart ==
    [exists |-> InitialPartitions, current_max |-> 0, pc |-> "idle",
     partition_num |-> 0, p |-> 0, table |-> 0, result |-> "none"]

\* A fetch worker waiting in work_rx.recv(): `start_block` and `count` are
\* its WorkItem, `i` the number of results of the item it has sent.
WorkerIdle == [pc |-> "recv", start_block |-> 0, count |-> 0, i |-> 0]

\* Nothing received yet (block number -> how many results).
NoResults == EmptyMap

\* run() after it has made the two channels, spawned num_workers workers
\* and dropped its result_tx, for fetch_workers = w, rpc_batch_size = k and
\* batch_size = b.
\* `work` is the queue of the work channel, `results` the queue of the
\* result channel (the block number of each FetchResult), `dispatchers` the
\* send_tasks that have not ended (end_block of the window -> next block to
\* send), `received` what the receive loop of the current window has taken
\* from the result channel.
PoolStart(w, k, b) ==
    [num_workers |-> w, rpc_batch_size |-> k, batch_size |-> b,
     work |-> << >>, results |-> << >>,
     workers |-> [x \in 1..w |-> WorkerIdle],
     dispatchers |-> EmptyMap,
     pc |-> "top", current_block |-> 0, end_block |-> 0,
     blocks_received |-> 0, received |-> NoResults]

\* The three phases of MetadataFetcher::run, in order, named by the table
\* each one scans.
Phases == << "nft_contracts", "erc20_contracts", "nft_tokens" >>

\* The rows of the three tables: MaxTargets rows each.
Targets == {<< Phases[i], k >> : i \in 1..Len(Phases), k \in 1..MaxTargets}

\* MetadataFetcher::run at the top of its loop with metadata_fetch_workers
\* = m and every row unfetched. `fetched` is the metadata_fetched column,
\* `phase` the index of the phase, `pending` the selected rows not yet
\* spawned, `handles` the JoinHandles pushed and not yet awaited, `running`
\* the spawned tasks that have not finished, `scan` the rows the current
\* scan selected, `selected_before` the rows an earlier scan selected,
\* `again` the rows that were selected by a second scan, `failures` the
\* number of tasks that ended on a failed UPDATE.
MetaStart(m) ==
    [workers |-> m, fetched |-> [t \in Targets |-> FALSE],
     phase |-> 1, pc |-> "select",
     pending |-> << >>, handles |-> << >>, running |-> {},
     scan |-> {}, selected_before |-> {}, again |-> {}, failures |-> 0]

\* `let mut last_block_number: Option<i64> = None`.
NoBlockNumber == -1

\* The stream of block_events before its first tick: the cursor, the block
\* numbers of the new_block events yielded so far, and the blocks that were
\* visible when the cursor was seeded.
SseStart == [last_block_number |-> NoBlockNumber, emitted |-> << >>,
             visible_at_seed |-> {}]

\* No address parameter received yet. A string is the sequence of its
\* characters.
NormStart == [address |-> << >>, results |-> << >>]

\* The tasks of main() before their first step.
TasksStart ==
    /\ sup = SupervisorsStart
    /\ parts = PartitionsStart
    /\ pool = PoolStart(1, 1, 1)
    /\ meta = MetaStart(1)
    /\ sse = SseStart
    /\ norm = NormStart

\* ------------------------------------------------------------------------
\* Indexer::run (indexer.rs:277-553) and run_with_retry (main.rs:60-92)
\* ------------------------------------------------------------------------

\* No write_batch failure ended the previous call of run().
NoWriteFailure == -1

\* History of the current window: the FetchResult received for each block,
\* whether a Success had to wait in the reorder buffer, the blocks a sideline
\* retry has committed, how many commits wrote the watermark, how often the
\* sideline re-fetched each block, the sleeps of the sideline in seconds, and
\* the blocks the sideline inserted into the failed_blocks table. After run()
\* returned the Err of a write_batch, write_failed_at is the first block of
\* the window that was being processed.
NewHist == [results |-> EmptyMap, out_of_order |-> FALSE, retried |-> {},
            wm_writes |-> 0, refetches |-> EmptyMap, waits |-> << >>,
            stored |-> {}, write_failed_at |-> NoWriteFailure]

\* The locals of run() before a window is opened.
NoWindow ==
    /\ inflight' = {}
    /\ buffer' = {}
    /\ next_to_process' = 0
    /\ blocks_received' = 0
    /\ failed_blocks' = << >>
    /\ still_failed' = << >>
    /\ attempt' = 0
    /\ retry_idx' = 0
    /\ batch' = NewBatch

Init ==
    /\ chain \in Chains
    /\ db = EmptyDb
    /\ pc = "start"
    /\ known_erc20 = {}
    /\ known_nft = {}
    /\ current_block = 0
    /\ end_block = 0
    /\ inflight = {}
    /\ buffer = {}
    /\ next_to_process = 0
    /\ blocks_received = 0
    /\ failed_blocks = << >>
    /\ still_failed = << >>
    /\ attempt = 0
    /\ retry_idx = 0
    /\ batch = NewBatch
    /\ fetch_errors = 0
    /\ run_errors = 0
    /\ hist = NewHist
    /\ fetch = FetchIdle
    /\ sent = NoRequest
    /\ TasksStart

\* get_start_block (indexer.rs:1045-1058)
get_start_block(d) ==
    IF d.last_indexed_block # NoWatermark THEN d.last_indexed_block + 1
    ELSE StartBlock

\* run(), lines 277-360: read the start block, load the known-contract sets,
\* create the channels and the workers.
Start ==
    /\ pc = "start"
    /\ current_block' = get_start_block(db)
    /\ known_erc20' = DOMAIN db.erc20_contracts
    /\ known_nft' = DOMAIN db.nft_contracts
    /\ end_block' = 0
    /\ NoWindow
    /\ hist' = [NewHist EXCEPT !.write_failed_at = hist.write_failed_at]
    /\ pc' = "head"
    /\ UNCHANGED << chain, db, fetch_errors, run_errors >>

\* truncate_tables (indexer.rs:1375-1383): the TRUNCATE names every table
\* write_batch writes except tx_hash_lookup, and not failed_blocks.
truncate_tables(d) ==
    [EmptyDb EXCEPT !.tx_hash_lookup = d.tx_hash_lookup,
                    !.failed_blocks = d.failed_blocks]

\* run() with config.reindex = true, lines 277-360: the tables are
\* truncated (lines 286-289), then the start block and the known-contract
\* sets are read from them.
StartReindex ==
    /\ pc = "start"
    /\ db' = truncate_tables(db)
    /\ current_block' = get_start_block(db')
    /\ known_erc20' = DOMAIN db'.erc20_contracts
    /\ known_nft' = DOMAIN db'.nft_contracts
    /\ end_block' = 0
    /\ NoWindow
    /\ hist' = [NewHist EXCEPT !.write_failed_at = hist.write_failed_at]
    /\ pc' = "head"
    /\ UNCHANGED << chain, fetch_errors, run_errors >>

\* run() returns Err: its locals are dropped, the supervisor takes over. The
\* known-contract sets and the history are set by the action that returns the
\* error.
ReturnErr ==
    /\ run_errors < MaxRunErrors
    /\ run_errors' = run_errors + 1
    /\ pc' = "failed"
    /\ current_block' = 0
    /\ end_block' = 0
    /\ NoWindow

\* Line 288: the TRUNCATE returns Err and `?` returns it from run().
StartReindexFails ==
    /\ pc = "start"
    /\ ReturnErr
    /\ hist' = NewHist
    /\ UNCHANGED << chain, db, known_erc20, known_nft, fetch_errors >>

\* Top of the loop (lines 362-413): the chain head is read; at the head the
\* loop sleeps and asks again, otherwise it opens the window
\* [current_block, min(current_block + batch_size - 1, head)] and the
\* dispatcher hands its blocks to the workers.
GetHead ==
    /\ pc = "head"
    /\ LET head == MaxBlock IN
        /\ IF current_block > head
           THEN UNCHANGED << pc, end_block, inflight, buffer, next_to_process,
                             blocks_received, failed_blocks, still_failed,
                             attempt, retry_idx, batch, hist >>
           ELSE /\ end_block' = Min(current_block + BatchSize - 1, head)
                /\ inflight' = current_block..end_block'
                /\ buffer' = {}
                /\ next_to_process' = current_block
                /\ blocks_received' = 0
                /\ failed_blocks' = << >>
                /\ still_failed' = << >>
                /\ attempt' = 0
                /\ retry_idx' = 0
                /\ batch' = NewBatch
                /\ hist' = NewHist
                /\ pc' = "recv"
    /\ UNCHANGED << chain, db, known_erc20, known_nft, current_block,
                    fetch_errors, run_errors >>

\* get_block_number_with_retry exhausted its retries (lines 366-370).
GetHeadFails ==
    /\ pc = "head"
    /\ ReturnErr
    /\ hist' = NewHist
    /\ UNCHANGED << chain, db, known_erc20, known_nft, fetch_errors >>

\* The receive arm without the reorder buffer: a block is collected as soon
\* as its result arrives.
DrainBufferOnArrival(buf, next, b, ke, kn) ==
    IF buf = {} THEN [buffer |-> buf, next |-> next, batch |-> b]
    ELSE LET n == CHOOSE m \in buf : TRUE
         IN [buffer |-> buf \ {n}, next |-> next + 1,
             batch |-> collect_block(b, ke, kn, n, chain[n])]

\* `while let Some(data) = buffer.remove(&next_to_process)` (lines 423-426).
RECURSIVE DrainBuffer(_, _, _, _, _)
DrainBuffer(buf, next, b, ke, kn) ==
    IF next \in buf
    THEN LET nb == collect_block(b, ke, kn, next, chain[next])
         IN \* (the test makes TLC evaluate nb before it descends further)
            IF nb.last_block = next
            THEN DrainBuffer(buf \ {next}, next + 1, nb, ke, kn)
            ELSE [buffer |-> buf \ {next}, next |-> next + 1, batch |-> nb]
    ELSE [buffer |-> buf, next |-> next, batch |-> b]

\* `while blocks_received < batch_size` (line 416): the loop is left once a
\* result was received for every block of the window.
AfterRecv(received) ==
    IF received < end_block - current_block + 1 THEN "recv" ELSE "write"

\* A worker's FetchResult::Success for block n is received (lines 418-427).
RecvSuccess(n) ==
    /\ pc = "recv"
    /\ n \in inflight
    /\ inflight' = inflight \ {n}
    /\ blocks_received' = blocks_received + 1
    /\ LET d == DrainBuffer(buffer \cup {n}, next_to_process, batch,
                            known_erc20, known_nft)
       IN /\ buffer' = d.buffer
          /\ next_to_process' = d.next
          /\ batch' = d.batch
    /\ hist' = [hist EXCEPT !.results = Put(@, n, "ok"),
                             !.out_of_order = @ \/ n # next_to_process]
    /\ pc' = AfterRecv(blocks_received')
    /\ UNCHANGED << chain, db, known_erc20, known_nft, current_block, end_block,
                    failed_blocks, still_failed, attempt, retry_idx,
                    fetch_errors, run_errors >>

\* A worker's FetchResult::Error for block n is received (lines 428-436).
RecvError(n) ==
    /\ pc = "recv"
    /\ n \in inflight
    /\ fetch_errors < MaxFetchErrors
    /\ fetch_errors' = fetch_errors + 1
    /\ inflight' = inflight \ {n}
    /\ failed_blocks' = Append(failed_blocks, n)
    /\ blocks_received' = blocks_received + 1
    /\ next_to_process' = IF next_to_process = n THEN next_to_process + 1
                          ELSE next_to_process
    /\ hist' = [hist EXCEPT !.results = Put(@, n, "err")]
    /\ pc' = AfterRecv(blocks_received')
    /\ UNCHANGED << chain, db, known_erc20, known_nft, current_block, end_block,
                    buffer, still_failed, attempt, retry_idx, batch, run_errors >>

\* A sideline that sleeps 2 s before every attempt.
SidelineDelayFlat(a) == 2

\* `let delay = Duration::from_secs(attempt * 2)` (line 468).
SidelineDelay(a) == a * 2

\* The sleeps of the sideline once the result `still` of the retry at
\* retry_idx is known: the next attempt, if there is one, starts with its
\* sleep.
SidelineWaits(waits, still) ==
    IF retry_idx = Len(failed_blocks) /\ still # << >> /\ attempt < SidelineAttempts
    THEN Append(waits, SidelineDelay(attempt + 1))
    ELSE waits

\* One more single-block fetch of block n.
Refetched(refetches, n) ==
    Put(refetches, n, IF n \in DOMAIN refetches THEN refetches[n] + 1 ELSE 1)

\* Where the loop goes when the sideline has nothing (more) to retry:
\* lines 461, 466-467, 509.
SidelineEntry(failed) == IF failed = << >> THEN "advance" ELSE "sideline"

\* Lines 447-458: the window's batch is written in one transaction and the
\* new contracts are merged into the known sets.
WriteMain ==
    /\ pc = "write"
    /\ db' = write_batch(db, batch)
    /\ known_erc20' = known_erc20 \cup batch.new_erc20
    /\ known_nft' = known_nft \cup batch.new_nft
    /\ batch' = NewBatch
    /\ buffer' = {}
    /\ attempt' = IF failed_blocks = << >> THEN 0 ELSE 1
    /\ retry_idx' = IF failed_blocks = << >> THEN 0 ELSE 1
    /\ still_failed' = << >>
    /\ hist' = [hist EXCEPT !.wm_writes =
                                 IF batch.b_rows = << >> THEN @ ELSE @ + 1,
                             !.waits = IF failed_blocks = << >> THEN @
                                       ELSE Append(@, SidelineDelay(1))]
    /\ pc' = SidelineEntry(failed_blocks)
    /\ UNCHANGED << chain, current_block, end_block, inflight, next_to_process,
                    blocks_received, failed_blocks, fetch_errors, run_errors >>

\* The known set with the batch's new contracts merged into it although the
\* write failed.
KnownMergedBeforeWrite(known, new) == known \cup new

\* Lines 447-451: the new sets were taken out of the batch, write_batch
\* returned Err and `?` left run() before the `extend` of lines 454-455.
KnownAfterWriteErr(known, new) == known

\* write_batch returns Err (pool.begin(), the k+1-th statement or the commit
\* failed): the transaction is rolled back and `?` returns the error from
\* run().
WriteMainFails ==
    /\ pc = "write"
    /\ batch.b_rows # << >>
    /\ db' \in {tx_rollback(db, write_batch_statements(db, batch, k)) :
                    k \in 0..WriteStatements}
    /\ known_erc20' = KnownAfterWriteErr(known_erc20, batch.new_erc20)
    /\ known_nft' = KnownAfterWriteErr(known_nft, batch.new_nft)
    /\ ReturnErr
    /\ hist' = [NewHist EXCEPT !.write_failed_at = current_block]
    /\ UNCHANGED << chain, fetch_errors >>

\* The end of one pass of `for (block_num, last_error) in failed_blocks`
\* (lines 475-506): the next element, or the next attempt with the blocks
\* that still fail, or the end of the sideline.
SidelineStep(still) ==
    IF retry_idx < Len(failed_blocks)
    THEN /\ retry_idx' = retry_idx + 1
         /\ still_failed' = still
         /\ UNCHANGED << failed_blocks, attempt >>
         /\ pc' = "sideline"
    ELSE /\ failed_blocks' = still
         /\ still_failed' = << >>
         /\ IF still = << >> \/ attempt = SidelineAttempts
            THEN /\ attempt' = 0
                 /\ retry_idx' = 0
                 /\ pc' = IF still = << >> THEN "advance" ELSE "store"
            ELSE /\ attempt' = attempt + 1
                 /\ retry_idx' = 1
                 /\ pc' = "sideline"

\* Lines 477-496: the single-block fetch of a failed block succeeds; a
\* mini-batch is collected, written and merged.
RetrySuccess ==
    /\ pc = "sideline"
    /\ LET n == failed_blocks[retry_idx]
           mini_batch == collect_block(NewBatch, known_erc20, known_nft, n, chain[n])
       IN /\ db' = write_batch(db, mini_batch)
          /\ known_erc20' = known_erc20 \cup mini_batch.new_erc20
          /\ known_nft' = known_nft \cup mini_batch.new_nft
          /\ hist' = [hist EXCEPT !.retried = @ \cup {n}, !.wm_writes = @ + 1,
                                   !.refetches = Refetched(@, n),
                                   !.waits = SidelineWaits(@, still_failed)]
    /\ SidelineStep(still_failed)
    /\ UNCHANGED << chain, current_block, end_block, inflight, buffer,
                    next_to_process, blocks_received, batch,
                    fetch_errors, run_errors >>

\* Line 492: the mini-batch's write_batch returns Err.
RetryWriteFails ==
    /\ pc = "sideline"
    /\ LET n == failed_blocks[retry_idx]
           mini_batch == collect_block(NewBatch, known_erc20, known_nft, n, chain[n])
       IN /\ db' \in {tx_rollback(db, write_batch_statements(db, mini_batch, k)) :
                          k \in 0..WriteStatements}
          /\ known_erc20' = KnownAfterWriteErr(known_erc20, mini_batch.new_erc20)
          /\ known_nft' = KnownAfterWriteErr(known_nft, mini_batch.new_nft)
    /\ ReturnErr
    /\ hist' = [NewHist EXCEPT !.write_failed_at = current_block]
    /\ UNCHANGED << chain, fetch_errors >>

\* Lines 497-499: the single-block fetch fails again.
RetryError ==
    /\ pc = "sideline"
    /\ SidelineStep(Append(still_failed, failed_blocks[retry_idx]))
    /\ hist' = [hist EXCEPT
                   !.refetches = Refetched(@, failed_blocks[retry_idx]),
                   !.waits = SidelineWaits(@, Append(still_failed,
                                                     failed_blocks[retry_idx]))]
    /\ UNCHANGED << chain, db, known_erc20, known_nft, current_block, end_block,
                    inflight, buffer, next_to_process, blocks_received, batch,
                    fetch_errors, run_errors >>

\* The failed_blocks insert counting one retry per recorded failure:
\* VALUES ($1, $2, 1, NOW()) ... retry_count = failed_blocks.retry_count + 1.
RECURSIVE InsertFailedBlocksCountOne(_, _, _)
InsertFailedBlocksCountOne(tbl, failed, i) ==
    IF i > Len(failed) THEN tbl
    ELSE InsertFailedBlocksCountOne(
           Put(tbl, failed[i],
               IF failed[i] \in DOMAIN tbl THEN tbl[failed[i]] + 1 ELSE 1),
           failed, i + 1)

\* INSERT INTO failed_blocks ... VALUES ($1, $2, 3, NOW()) ON CONFLICT
\* (block_number) DO UPDATE SET retry_count = failed_blocks.retry_count + 3.
RECURSIVE InsertFailedBlocks(_, _, _)
InsertFailedBlocks(tbl, failed, i) ==
    IF i > Len(failed) THEN tbl
    ELSE InsertFailedBlocks(
           Put(tbl, failed[i],
               IF failed[i] \in DOMAIN tbl THEN tbl[failed[i]] + 3 ELSE 3),
           failed, i + 1)

\* Lines 509-530: the blocks that failed every attempt are recorded.
StoreFailed ==
    /\ pc = "store"
    /\ db' = [db EXCEPT !.failed_blocks = InsertFailedBlocks(@, failed_blocks, 1)]
    /\ hist' = [hist EXCEPT !.stored = @ \cup Range(failed_blocks)]
    /\ pc' = "advance"
    /\ UNCHANGED << chain, known_erc20, known_nft, current_block, end_block,
                    inflight, buffer, next_to_process, blocks_received,
                    failed_blocks, still_failed, attempt, retry_idx, batch,
                    fetch_errors, run_errors >>

\* Line 528: one of the INSERTs returns Err after k of them were executed;
\* each is its own statement on the pool, so the first k stay.
StoreFails ==
    /\ pc = "store"
    /\ \E k \in 0..(Len(failed_blocks) - 1) :
           db' = [db EXCEPT !.failed_blocks =
                      InsertFailedBlocks(@, SubSeq(failed_blocks, 1, k), 1)]
    /\ ReturnErr
    /\ hist' = NewHist
    /\ UNCHANGED << chain, known_erc20, known_nft, fetch_errors >>

\* Line 533: current_block = end_block + 1, and the loop starts over; the
\* window's locals go out of scope.
Advance ==
    /\ pc = "advance"
    /\ current_block' = end_block + 1
    /\ end_block' = 0
    /\ NoWindow
    /\ hist' = NewHist
    /\ pc' = "head"
    /\ UNCHANGED << chain, db, known_erc20, known_nft, fetch_errors, run_errors >>

\* run_with_retry (main.rs:67-90): after the backoff delay run() is called
\* again.
Restart ==
    /\ pc = "failed"
    /\ pc' = "start"
    /\ UNCHANGED << chain, db, known_erc20, known_nft, current_block, end_block,
                    inflight, buffer, next_to_process, blocks_received,
                    failed_blocks, still_failed, attempt, retry_idx, batch,
                    fetch_errors, run_errors, hist >>

\* In the ingestion loop the RPC side is abstracted to its results: the
\* variables of the RPC side do not change.
RunSteps ==
    \/ GetHead /\ UNCHANGED << rpc_vars, task_vars >>
    \/ GetHeadFails /\ UNCHANGED << rpc_vars, task_vars >>
    \/ \E n \in Blocks : RecvSuccess(n) /\ UNCHANGED << rpc_vars, task_vars >>
    \/ \E n \in Blocks : RecvError(n) /\ UNCHANGED << rpc_vars, task_vars >>
    \/ WriteMain /\ UNCHANGED << rpc_vars, task_vars >>
    \/ WriteMainFails /\ UNCHANGED << rpc_vars, task_vars >>
    \/ RetrySuccess /\ UNCHANGED << rpc_vars, task_vars >>
    \/ RetryWriteFails /\ UNCHANGED << rpc_vars, task_vars >>
    \/ RetryError /\ UNCHANGED << rpc_vars, task_vars >>
    \/ StoreFailed /\ UNCHANGED << rpc_vars, task_vars >>
    \/ StoreFails /\ UNCHANGED << rpc_vars, task_vars >>
    \/ Advance /\ UNCHANGED << rpc_vars, task_vars >>
    \/ Restart /\ UNCHANGED << rpc_vars, task_vars >>

\* The process with REINDEX unset.
Next ==
    \/ Start /\ UNCHANGED << rpc_vars, task_vars >>
    \/ RunSteps

Spec == Init /\ [][Next]_vars

\* The process with REINDEX set.
NextReindex ==
    \/ StartReindex /\ UNCHANGED << rpc_vars, task_vars >>
    \/ StartReindexFails /\ UNCHANGED << rpc_vars, task_vars >>
    \/ RunSteps

SpecReindex == Init /\ [][NextReindex]_vars


\* ------------------------------------------------------------------------
\* fetch_blocks_batch (indexer.rs:1060-1259) and the other outbound RPC calls
\* ------------------------------------------------------------------------

\* The start blocks the calls of the model are made with.
FetchStarts == {0, MaxBlock}

\* What an element of the response array can be for a request id: a result
\* that deserializes, a result that does not, a null result, an error
\* object, an element with neither field.
Elements == {"result", "malformed", "null", "error", "no_result"}

\* response_map.get(&id) is None: no element of the array has the id.
Missing == "missing"

\* A retry loop that sleeps 2 s after every failed attempt.
RetryDelayFlat(a) == RPC_RETRY_DELAYS[1]

\* `RPC_RETRY_DELAYS.get(attempt).copied().unwrap_or(*RPC_RETRY_DELAYS.last()...)`
RetryDelay(a) ==
    IF a + 1 <= Len(RPC_RETRY_DELAYS) THEN RPC_RETRY_DELAYS[a + 1]
    ELSE RPC_RETRY_DELAYS[Len(RPC_RETRY_DELAYS)]

Success(n, receipts) == [tag |-> "Success", number |-> n, receipts |-> receipts]
Error(n, error) == [tag |-> "Error", number |-> n, error |-> error]

\* `let block_result = match response_map.get(&block_id)` (lines 1194-1210).
block_result(e) ==
    CASE e = Missing     -> [ok |-> FALSE, error |-> "Missing response for block"]
      [] e = "error"     -> [ok |-> FALSE, error |-> "RPC error"]
      [] e = "null"      -> [ok |-> FALSE, error |-> "Block not found"]
      [] e = "malformed" -> [ok |-> FALSE, error |-> "Failed to parse block"]
      [] e = "no_result" -> [ok |-> FALSE, error |-> "No result in response"]
      [] e = "result"    -> [ok |-> TRUE, error |-> ""]

\* `let receipts_result = match response_map.get(&receipts_id)` (lines
\* 1213-1229): a missing response, a null result and an element without a
\* result are Ok(Vec::new()).
receipts_result(e) ==
    CASE e = Missing     -> [ok |-> TRUE, receipts |-> "empty", error |-> ""]
      [] e = "error"     -> [ok |-> FALSE, receipts |-> "", error |-> "RPC error"]
      [] e = "null"      -> [ok |-> TRUE, receipts |-> "empty", error |-> ""]
      [] e = "malformed" -> [ok |-> FALSE, receipts |-> "", error |-> "Failed to parse receipts"]
      [] e = "no_result" -> [ok |-> TRUE, receipts |-> "empty", error |-> ""]
      [] e = "result"    -> [ok |-> TRUE, receipts |-> "fetched", error |-> ""]

\* `match (block_result, receipts_result)` (lines 1232-1255).
combine(block_num, br, rr) ==
    IF br.ok /\ rr.ok THEN Success(block_num, rr.receipts)
    ELSE IF ~br.ok THEN Error(block_num, br.error)
    ELSE Error(block_num, rr.error)

\* The exhausted retry loop returning one result too few.
exhausted_results_short(start_block, count, error_msg) ==
    [j \in 1..(count - 1) |-> Error(start_block + (j - 1), error_msg)]

\* `(0..count).map(|i| FetchResult::Error { block_num: start_block + i, .. })`
\* (lines 1169-1174).
exhausted_results(start_block, count, error_msg) ==
    [j \in 1..count |-> Error(start_block + (j - 1), error_msg)]

\* A worker (line 330) or the sideline (line 477) calls
\* fetch_blocks_batch(start_block, count).
FetchCall(start_block, count) ==
    /\ fetch.pc \in {"idle", "returned"}
    /\ fetch' = [FetchIdle EXCEPT !.pc = "limiter", !.start_block = start_block,
                                  !.count = count]
    /\ UNCHANGED << indexer_vars, task_vars, sent >>

\* `for _ in 0..(count * 2) { rate_limiter.until_ready().await; }` (lines
\* 1070-1072), followed by the construction of the batch request.
UntilReady ==
    /\ fetch.pc = "limiter"
    /\ fetch' = [fetch EXCEPT !.acquired = @ + fetch.count * 2, !.pc = "loop"]
    /\ UNCHANGED << indexer_vars, task_vars, sent >>

\* The request `client.post(rpc_url).json(&batch_request).send()` puts on the
\* wire, with the tokens acquired for it.
BatchSend == Request("batch", fetch.count * 2, fetch.acquired)

\* One attempt of the loop whose send returns Err (lines 1103-1127).
SendFails ==
    /\ fetch.pc = "loop"
    /\ fetch.attempt < RPC_MAX_RETRIES
    /\ sent' = BatchSend
    /\ fetch' = [fetch EXCEPT !.acquired = 0,
                              !.last_error = "HTTP request failed",
                              !.sleeps = Append(@, RetryDelay(fetch.attempt)),
                              !.attempt = @ + 1]
    /\ UNCHANGED << indexer_vars, task_vars >>

\* One attempt whose response body is not a JSON array (lines 1131, 1144-1160).
ParseFails ==
    /\ fetch.pc = "loop"
    /\ fetch.attempt < RPC_MAX_RETRIES
    /\ sent' = BatchSend
    /\ fetch' = [fetch EXCEPT !.acquired = 0,
                              !.last_error = "Failed to parse response",
                              !.sleeps = Append(@, RetryDelay(fetch.attempt)),
                              !.attempt = @ + 1]
    /\ UNCHANGED << indexer_vars, task_vars >>

\* One attempt that receives a JSON array (lines 1132-1143): the loop is
\* left, its `attempt` goes out of scope and last_error is not read again;
\* response_map is built (lines 1179-1186).
ParseOk ==
    /\ fetch.pc = "loop"
    /\ fetch.attempt < RPC_MAX_RETRIES
    /\ sent' = BatchSend
    /\ fetch' = [fetch EXCEPT !.acquired = 0,
                              !.attempt = 0, !.last_error = "None",
                              !.sleeps = << >>,
                              !.i = 0, !.pc = "respond"]
    /\ UNCHANGED << indexer_vars, task_vars >>

\* The loop ended without a response (lines 1165-1176): one Error per block.
ReturnErrors ==
    /\ fetch.pc = "loop"
    /\ fetch.attempt = RPC_MAX_RETRIES
    /\ fetch' = [fetch EXCEPT
                   !.results = exhausted_results(fetch.start_block, fetch.count,
                                                 fetch.last_error),
                   !.pc = "returned"]
    /\ UNCHANGED << indexer_vars, task_vars, sent >>

\* One pass of `for i in 0..count` (lines 1188-1256): b and r are what
\* response_map holds for the ids 2i and 2i+1.
ProcessBlock(b, r) ==
    /\ fetch.pc = "respond"
    /\ fetch.i < fetch.count
    /\ fetch' = [fetch EXCEPT
                   !.block_resp = b,
                   !.receipts_resp = r,
                   !.results = Append(@, combine(fetch.start_block + fetch.i,
                                                 block_result(b), receipts_result(r))),
                   !.i = @ + 1]
    /\ UNCHANGED << indexer_vars, task_vars, sent >>

\* `results` is returned (line 1258).
ReturnResults ==
    /\ fetch.pc = "respond"
    /\ fetch.i = fetch.count
    /\ fetch' = [fetch EXCEPT !.pc = "returned"]
    /\ UNCHANGED << indexer_vars, task_vars, sent >>

\* One `provider.get_block_number().await` of get_block_number_with_retry
\* (line 1341): the provider sends eth_blockNumber; the rate limiter is not
\* passed to the function.
GetBlockNumber ==
    /\ sent' = Request("eth_blockNumber", 1, 0)
    /\ UNCHANGED << indexer_vars, task_vars, fetch >>

\* One `contract.<method>().call().await` of the metadata fetcher
\* (metadata.rs:230-236, 267-276, 475) on its own provider
\* (metadata.rs:53): an eth_call; MetadataFetcher has no rate limiter.
MetadataCall ==
    /\ sent' = Request("eth_call", 1, 0)
    /\ UNCHANGED << indexer_vars, task_vars, fetch >>

\* The steps of a running call of fetch_blocks_batch.
FetchStep ==
    \/ UntilReady
    \/ SendFails
    \/ ParseFails
    \/ ParseOk
    \/ ReturnErrors
    \/ \E b, r \in Elements \cup {Missing} : ProcessBlock(b, r)
    \/ ReturnResults

\* Indexer::run has not started and no RPC call is running.
IndexerIdle ==
    /\ chain = [n \in Blocks |-> EmptyBlock]
    /\ db = EmptyDb
    /\ pc = "start"
    /\ known_erc20 = {}
    /\ known_nft = {}
    /\ current_block = 0
    /\ end_block = 0
    /\ inflight = {}
    /\ buffer = {}
    /\ next_to_process = 0
    /\ blocks_received = 0
    /\ failed_blocks = << >>
    /\ still_failed = << >>
    /\ attempt = 0
    /\ retry_idx = 0
    /\ batch = NewBatch
    /\ fetch_errors = 0
    /\ run_errors = 0
    /\ hist = NewHist
    /\ fetch = FetchIdle
    /\ sent = NoRequest

InitFetch == IndexerIdle /\ TasksStart

NextFetch ==
    \/ \E s \in FetchStarts, c \in 1..MaxCount : FetchCall(s, c)
    \/ UntilReady
    \/ SendFails
    \/ ParseFails
    \/ ParseOk
    \/ ReturnErrors
    \/ \E b, r \in Elements \cup {Missing} : ProcessBlock(b, r)
    \/ ReturnResults
    \/ GetBlockNumber
    \/ MetadataCall

\* The RPC side alone: calls of fetch_blocks_batch, head queries and
\* metadata calls.
SpecFetch == InitFetch /\ [][NextFetch]_vars

\* A running call of fetch_blocks_batch takes its next step: every await in
\* it (the rate limiter, the send, the body, the sleep) completes.
SpecFetchLive == SpecFetch /\ WF_vars(FetchStep)


\* ------------------------------------------------------------------------
\* run_with_retry (main.rs:60-92)
\* ------------------------------------------------------------------------

\* The delay taken from the table at retry_count + 1, i.e. with the counter
\* incremented before the lookup.
DelayAfterIncrement(retry_count) ==
    IF retry_count + 2 <= Len(RETRY_DELAYS)
    THEN RETRY_DELAYS[retry_count + 2]
    ELSE MAX_RETRY_DELAY

\* RETRY_DELAYS.get(retry_count).copied().unwrap_or(MAX_RETRY_DELAY)
Delay(retry_count) ==
    IF retry_count + 1 <= Len(RETRY_DELAYS)
    THEN RETRY_DELAYS[retry_count + 1]
    ELSE MAX_RETRY_DELAY

\* f().await returns Err(e): the delay is looked up and the sleep begins.
RunFails(t) ==
    /\ sup[t].pc = "running"
    /\ sup[t].retry_count < MaxFailures
    /\ sup' = [sup EXCEPT ![t].pc = "sleeping",
                          ![t].waits = Append(@, Delay(sup[t].retry_count))]
    /\ UNCHANGED other_than_sup

\* The sleep ends: retry_count += 1 and the loop calls f() again.
SleepEnds(t) ==
    /\ sup[t].pc = "sleeping"
    /\ sup' = [sup EXCEPT ![t].pc = "running",
                          ![t].retry_count = @ + 1]
    /\ UNCHANGED other_than_sup

NextSupervisor ==
    \/ \E t \in Tasks : RunFails(t)
    \/ \E t \in Tasks : SleepEnds(t)

\* The two supervisors alone. Neither closure ever returns Ok(()): both
\* Indexer::run and MetadataFetcher::run are loops left only by `?` or
\* `return Err`, so the Ok arm of the match is never taken.
SpecSupervisor == InitFetch /\ [][NextSupervisor]_vars

\* tokio::time::sleep completes.
SpecSupervisorLive ==
    SpecSupervisor /\ \A t \in Tasks : WF_vars(SleepEnds(t))

\* ------------------------------------------------------------------------
\* ensure_partitions_exist (indexer.rs:1261-1334)
\* ------------------------------------------------------------------------

\* The block numbers ensure_partitions_exist is called with: the first and
\* the last block of each partition.
EnsureBlocks ==
    UNION {{k * PARTITION_SIZE, k * PARTITION_SIZE + PARTITION_SIZE - 1} :
              k \in 0..MaxPartition}

\* SELECT MAX(...) FROM pg_class WHERE relname ~ '^blocks_p\d+$': the
\* highest partition number of the parent `blocks`. blocks_p0 exists from
\* the start and partitions are never dropped, so the MAX is never NULL.
MaxBlocksPartition(exists) ==
    CHOOSE m \in 0..MaxPartition :
        /\ Partition("blocks", m) \in exists
        /\ \A k \in 0..MaxPartition : Partition("blocks", k) \in exists => k <= m

\* Lines 1264-1295 for a call in which the cache is 0: the catalog lookup.
\* The value is the pair (new cache value, first partition to create).
FirstRun(exists) ==
    LET max == MaxBlocksPartition(exists)
    IN << max, max + 1 >>

\* Lines 1264-1295: the fast path, the catalog lookup of the first run, or
\* the start of the creation loop at current_max + 1.
EnsureCall(block_number) ==
    /\ parts.pc = "idle"
    /\ LET partition_num == block_number \div PARTITION_SIZE
           current_max == parts.current_max
       IN IF partition_num <= current_max
          THEN parts' = [parts EXCEPT !.result = "ok",
                                      !.partition_num = partition_num]
          ELSE IF current_max = 0
          THEN LET first == FirstRun(parts.exists)
               IN IF partition_num <= first[1]
                  THEN parts' = [parts EXCEPT !.current_max = first[1],
                                              !.result = "ok",
                                              !.partition_num = partition_num]
                  ELSE parts' = [parts EXCEPT !.current_max = first[1],
                                              !.pc = "create",
                                              !.partition_num = partition_num,
                                              !.p = first[2], !.table = 1,
                                              !.result = "none"]
          ELSE parts' = [parts EXCEPT !.pc = "create",
                                      !.partition_num = partition_num,
                                      !.p = current_max + 1, !.table = 1,
                                      !.result = "none"]
    /\ UNCHANGED other_than_parts

\* Line 1283 (the lookup) returns Err.
LookupFails(block_number) ==
    /\ parts.pc = "idle"
    /\ block_number \div PARTITION_SIZE > parts.current_max
    /\ parts.current_max = 0
    /\ parts' = [parts EXCEPT !.result = "err",
                              !.partition_num = block_number \div PARTITION_SIZE]
    /\ UNCHANGED other_than_parts

\* Lines 1318-1326: one CREATE TABLE IF NOT EXISTS of the double loop.
CreatePartition ==
    /\ parts.pc = "create"
    /\ parts.p <= parts.partition_num
    /\ parts' = [parts EXCEPT
                    !.exists = @ \cup {Partition(PartitionedTables[parts.table], parts.p)},
                    !.table = IF @ = Len(PartitionedTables) THEN 1 ELSE @ + 1,
                    !.p = IF parts.table = Len(PartitionedTables) THEN @ + 1 ELSE @]
    /\ UNCHANGED other_than_parts

\* Line 1326: a CREATE TABLE returns Err and `?` leaves the function.
CreateFails ==
    /\ parts.pc = "create"
    /\ parts.p <= parts.partition_num
    /\ parts' = [parts EXCEPT !.pc = "idle", !.result = "err", !.p = 0, !.table = 0]
    /\ UNCHANGED other_than_parts

\* Lines 1330-1333: the loop is over; the cache is updated.
EnsureReturns ==
    /\ parts.pc = "create"
    /\ parts.p > parts.partition_num
    /\ parts' = [parts EXCEPT !.pc = "idle", !.result = "ok", !.p = 0, !.table = 0,
                              !.current_max = parts.partition_num]
    /\ UNCHANGED other_than_parts

NextPartitions ==
    \/ \E n \in EnsureBlocks : EnsureCall(n)
    \/ \E n \in EnsureBlocks : LookupFails(n)
    \/ CreatePartition
    \/ CreateFails
    \/ EnsureReturns

\* The calls of ensure_partitions_exist of one process.
SpecPartitions == InitFetch /\ [][NextPartitions]_vars

\* ------------------------------------------------------------------------
\* The worker pool of run() (indexer.rs:305-356, 388-442)
\* ------------------------------------------------------------------------

\* Capacity of the work channel: async_channel::bounded(num_workers * 2).
WorkCapacity == pool.num_workers * 2

\* Capacity of the result channel:
\* mpsc::channel(num_workers * rpc_batch_size * 2).
ResultCapacity == pool.num_workers * pool.rpc_batch_size * 2

\* A WorkItem whose count is blocks_per_batch whatever is left of the window.
WorkItemNotClamped(start_block, count) ==
    [start_block |-> start_block, count |-> pool.rpc_batch_size]

WorkItem(start_block, count) == [start_block |-> start_block, count |-> count]

\* One more of n in bag b.
BagAdd(b, n) == Put(b, n, (IF n \in DOMAIN b THEN b[n] ELSE 0) + 1)

\* The Sender handles of the work channel if run()'s work_tx outlived the
\* return of run().
WorkSendersKept == 1 + Cardinality(DOMAIN pool.dispatchers)

\* The live Sender handles of the work channel: run()'s work_tx and the
\* work_tx_clone of every send_task that has not ended.
WorkSenders ==
    (IF pool.pc = "returned" THEN 0 ELSE 1) + Cardinality(DOMAIN pool.dispatchers)

\* The live Receiver handles of the work channel: run()'s work_rx and the
\* clone of every worker that has not ended.
WorkReceivers ==
    (IF pool.pc = "returned" THEN 0 ELSE 1)
    + Cardinality({w \in DOMAIN pool.workers : pool.workers[w].pc # "exited"})

\* f without its key k.
Without(f, k) == [x \in (DOMAIN f) \ {k} |-> f[x]]

\* A window that always holds batch_size blocks.
WindowEndPastHead(current, batch_size, head) == current + batch_size - 1

\* let end_block = (current_block + self.config.batch_size - 1).min(head)
WindowEnd(current, batch_size, head) == Min(current + batch_size - 1, head)

\* Lines 373-411: the head is MaxPoolBlock and current_block has not passed
\* it; the window ends at (current_block + batch_size - 1).min(head), its
\* send_task is spawned and the receive loop begins. The send_task of the
\* window before has ended: `let _ = send_task.await` (line 458) returned
\* before current_block was set.
StartWindow ==
    /\ pool.pc = "top"
    /\ pool.current_block <= MaxPoolBlock
    /\ DOMAIN pool.dispatchers = {}
    /\ LET window_end == WindowEnd(pool.current_block, pool.batch_size, MaxPoolBlock)
       IN pool' = [pool EXCEPT
                     !.pc = "recv",
                     !.end_block = window_end,
                     !.blocks_received = 0,
                     !.received = NoResults,
                     !.dispatchers = Put(@, window_end, pool.current_block)]
    /\ UNCHANGED other_than_pool

\* Lines 393-405: the send_task of the window that ends at window_end puts
\* its next WorkItem into the work channel; it waits while the channel is
\* full and ends when the channel is closed or the last item is sent.
DispatcherSends(window_end) ==
    /\ window_end \in DOMAIN pool.dispatchers
    /\ LET block == pool.dispatchers[window_end]
           count == Min(window_end - block + 1, pool.rpc_batch_size)
       IN IF block > window_end \/ WorkReceivers = 0
          THEN pool' = [pool EXCEPT !.dispatchers = Without(@, window_end)]
          ELSE /\ Len(pool.work) < WorkCapacity
               /\ pool' = [pool EXCEPT
                              !.work = Append(@, WorkItem(block, count)),
                              !.dispatchers[window_end] = @ + count]
    /\ UNCHANGED other_than_pool

\* Lines 326-335, 345-348: work_rx.recv() returns an item and
\* fetch_blocks_batch returns its `count` results, or recv() returns Err
\* when the channel is empty and every Sender is dropped and the worker
\* ends.
WorkerRecv(w) ==
    /\ w \in DOMAIN pool.workers
    /\ pool.workers[w].pc = "recv"
    /\ IF pool.work # << >>
       THEN pool' = [pool EXCEPT
                       !.work = Tail(@),
                       !.workers[w] = [pc |-> "send",
                                       start_block |-> Head(pool.work).start_block,
                                       count |-> Head(pool.work).count, i |-> 0]]
       ELSE /\ WorkSenders = 0
            /\ pool' = [pool EXCEPT !.workers[w].pc = "exited"]
    /\ UNCHANGED other_than_pool

\* Lines 338-342: the next result is sent; the send waits while the result
\* channel is full and returns Err once result_rx is dropped. After the
\* last result the worker is back at work_rx.recv().
WorkerSend(w) ==
    /\ w \in DOMAIN pool.workers
    /\ pool.workers[w].pc = "send"
    /\ LET me == pool.workers[w]
       IN IF pool.pc = "returned"
          THEN pool' = [pool EXCEPT !.workers[w].pc = "exited"]
          ELSE /\ Len(pool.results) < ResultCapacity
               /\ pool' = [pool EXCEPT
                              !.results = Append(@, me.start_block + me.i),
                              !.workers[w] = IF me.i + 1 = me.count THEN WorkerIdle
                                             ELSE [me EXCEPT !.i = @ + 1]]
    /\ UNCHANGED other_than_pool

\* The receive loop left one result early.
ReceiveLoopStopsEarly(received, batch_size) == received + 1 < batch_size

\* while blocks_received < batch_size
ReceiveLoopContinues(received, batch_size) == received < batch_size

\* Lines 416-441: result_rx.recv() returns a FetchResult and the loop
\* counts it; when blocks_received reaches batch_size the window goes on
\* to its writes and, when they succeed, to the top of the loop with
\* current_block = end_block + 1 (line 533).
MainRecv ==
    /\ pool.pc = "recv"
    /\ pool.results # << >>
    /\ LET received == pool.blocks_received + 1
           batch_size == pool.end_block - pool.current_block + 1
       IN pool' = [pool EXCEPT
                     !.results = Tail(@),
                     !.received = BagAdd(@, Head(pool.results)),
                     !.blocks_received = received,
                     !.pc = IF ReceiveLoopContinues(received, batch_size)
                            THEN "recv" ELSE "top",
                     !.current_block = IF ReceiveLoopContinues(received, batch_size)
                                       THEN @ ELSE pool.end_block + 1]
    /\ UNCHANGED other_than_pool

\* Lines 369, 386, 451, 492, 528: run() returns Err at the top of the loop
\* or after the receive loop; work_tx, work_rx and result_rx are dropped.
MainReturnsErr ==
    /\ pool.pc = "top"
    /\ pool' = [pool EXCEPT !.pc = "returned", !.results = << >>]
    /\ UNCHANGED other_than_pool

\* A step of a worker.
WorkerStep(w) == WorkerRecv(w) \/ WorkerSend(w)

InitPool ==
    /\ IndexerIdle
    /\ sup = SupervisorsStart
    /\ parts = PartitionsStart
    /\ meta = MetaStart(1)
    /\ sse = SseStart
    /\ norm = NormStart
    /\ pool \in {PoolStart(w, k, b) : w \in 1..MaxWorkers, k \in 1..MaxCount,
                                      b \in 1..(MaxPoolBlock + 1)}

NextPool ==
    \/ StartWindow
    \/ \E e \in 0..MaxPoolBlock : DispatcherSends(e)
    \/ \E w \in 1..MaxWorkers : WorkerRecv(w)
    \/ \E w \in 1..MaxWorkers : WorkerSend(w)
    \/ MainRecv
    \/ MainReturnsErr

SpecPool == InitPool /\ [][NextPool]_vars

\* The tokio runtime polls every task that can make progress: each
\* send_task, each worker and the receive loop of run().
SpecPoolLive ==
    /\ SpecPool
    /\ \A e \in 0..MaxPoolBlock : WF_vars(DispatcherSends(e))
    /\ \A w \in 1..MaxWorkers : WF_vars(WorkerStep(w))
    /\ WF_vars(MainRecv)

\* ------------------------------------------------------------------------
\* MetadataFetcher (metadata.rs:58-463)
\* ------------------------------------------------------------------------

\* LIMIT $1 of the scan of phase i: workers * 5 for the two contract tables,
\* workers * 10 for nft_tokens.
ScanLimit(i) == meta.workers * (IF Phases[i] = "nft_tokens" THEN 10 ELSE 5)

\* The rows `SELECT ... WHERE metadata_fetched = false LIMIT n` may return
\* for phase i: any n of the unfetched rows, or all of them if there are
\* fewer.
Selections(i) ==
    LET unfetched == {t \in Targets : t[1] = Phases[i] /\ ~meta.fetched[t]}
    IN IF Cardinality(unfetched) <= ScanLimit(i) THEN {unfetched}
       ELSE {x \in SUBSET unfetched : Cardinality(x) = ScanLimit(i)}

\* The rows of a selection in the order the loop visits them.
RECURSIVE InOrder(_)
InOrder(rows) ==
    IF rows = {} THEN << >>
    ELSE LET t == CHOOSE x \in rows : \A y \in rows : x[2] <= y[2]
         IN << t >> \o InOrder(rows \ {t})

\* The phase after phase i; after the third the loop starts over.
NextPhase(i) == IF i = Len(Phases) THEN 1 ELSE i + 1

\* The handles are awaited as soon as there are more than workers of them.
HandlesFullAfterOneMore(n, workers) == n > workers

\* if handles.len() >= self.config.metadata_fetch_workers as usize
HandlesFull(n, workers) == n >= workers

\* What a task can end with. For a contract: the UPDATE that stores the
\* metadata succeeds ("stored", also when every eth_call failed and the
\* columns are NULL), it fails and the fallback UPDATE marks the row
\* ("fallback"), or both UPDATEs fail ("update_fails"). For a token: one of
\* the UPDATEs that set metadata_fetched succeeds ("stored": metadata or
\* image stored, tokenURI failed, URI empty, or all HTTP attempts failed),
\* or an UPDATE returns Err and `?` leaves the function ("update_fails").
Outcomes(t) ==
    IF t[1] = "nft_tokens" THEN {"stored", "update_fails"}
    ELSE {"stored", "fallback", "update_fails"}

\* Lines 82-95, 127-140, 172-187: the SELECT of the phase returns no row and
\* the phase returns Ok(false), or it returns rows and the spawn loop begins.
Select ==
    /\ meta.pc = "select"
    /\ \E rows \in Selections(meta.phase) :
          IF rows = {}
          THEN meta' = [meta EXCEPT !.phase = NextPhase(@), !.scan = {}]
          ELSE meta' = [meta EXCEPT
                          !.pc = "spawn",
                          !.pending = InOrder(rows),
                          !.scan = rows,
                          !.again = @ \cup (rows \cap meta.selected_before),
                          !.selected_before = @ \cup rows]
    /\ UNCHANGED other_than_meta

\* Lines 86-87, 131-132, 179-180: fetch_all returns Err, run() returns it
\* and run_with_retry calls run() again, which starts with the first phase.
SelectFails ==
    /\ meta.pc = "select"
    /\ meta.phase > 1
    /\ meta' = [meta EXCEPT !.phase = 1, !.scan = {}]
    /\ UNCHANGED other_than_meta

\* Lines 97-113, 142-158, 189-207: the next row's task is spawned and its
\* handle pushed; if the handles are full the loop goes to await them.
Spawn ==
    /\ meta.pc = "spawn"
    /\ meta.pending # << >>
    /\ meta' = [meta EXCEPT
                   !.pending = Tail(@),
                   !.handles = Append(@, Head(meta.pending)),
                   !.running = @ \cup {Head(meta.pending)},
                   !.pc = IF HandlesFull(Len(meta.handles) + 1, meta.workers)
                          THEN "drain" ELSE "spawn"]
    /\ UNCHANGED other_than_meta

\* Lines 111-122, 156-167, 205-216: the first
\* handle is awaited; it returns when its task has finished. After the last
\* handle the spawn loop goes on, or the phase returns Ok(true).
Await ==
    /\ meta.pc \in {"drain", "spawn"}
    /\ meta.pc = "spawn" => meta.pending = << >>
    /\ IF meta.handles = << >>
       THEN /\ meta.pending = << >>
            /\ meta' = [meta EXCEPT !.pc = "select", !.phase = NextPhase(@)]
       ELSE /\ Head(meta.handles) \notin meta.running
            /\ meta' = [meta EXCEPT
                           !.handles = Tail(@),
                           !.pc = IF Tail(meta.handles) = << >> /\ meta.pending # << >>
                                  THEN "spawn" ELSE @]
    /\ UNCHANGED other_than_meta

\* Lines 100-109, 145-154, 196-203: the task of row t runs to its end.
TaskEnds(t, outcome) ==
    /\ t \in meta.running
    /\ outcome \in Outcomes(t)
    /\ outcome = "update_fails" => meta.failures < MaxStoreFailures
    /\ meta' = [meta EXCEPT
                   !.running = @ \ {t},
                   !.fetched[t] = (outcome # "update_fails"),
                   !.failures = IF outcome = "update_fails" THEN @ + 1 ELSE @]
    /\ UNCHANGED other_than_meta

InitMeta ==
    /\ IndexerIdle
    /\ sup = SupervisorsStart
    /\ parts = PartitionsStart
    /\ pool = PoolStart(1, 1, 1)
    /\ meta \in {MetaStart(m) : m \in 1..MaxMetaWorkers}
    /\ sse = SseStart
    /\ norm = NormStart

NextMeta ==
    \/ Select
    \/ SelectFails
    \/ Spawn
    \/ Await
    \/ \E t \in Targets : \E outcome \in {"stored", "fallback", "update_fails"} :
          TaskEnds(t, outcome)

\* The metadata fetcher alone.
SpecMeta == InitMeta /\ [][NextMeta]_vars

\* ------------------------------------------------------------------------
\* block_events (atlas-api handlers/sse.rs:23-106)
\* ------------------------------------------------------------------------

\* The numbers of a set of block rows, ORDER BY number ASC.
RECURSIVE Ascending(_)
Ascending(nums) ==
    IF nums = {} THEN << >>
    ELSE LET n == CHOOSE x \in nums : \A y \in nums : x <= y
         IN << n >> \o Ascending(nums \ {n})

\* SELECT MAX(number) FROM blocks (of a table that is not empty).
MaxNumber(tbl) == CHOOSE x \in DOMAIN tbl : \A y \in DOMAIN tbl : y <= x

\* Lines 36-65: the first tick that finds a block seeds the cursor with the
\* highest block number and yields that block, unless the SELECT of the row
\* fails. On an empty table the cursor stays None.
SseSeed ==
    /\ sse.last_block_number = NoBlockNumber
    /\ DOMAIN db.blocks # {}
    /\ \E row_read \in BOOLEAN :
          sse' = [sse EXCEPT
                    !.last_block_number = MaxNumber(db.blocks),
                    !.emitted = IF row_read THEN << MaxNumber(db.blocks) >> ELSE @,
                    !.visible_at_seed = DOMAIN db.blocks]
    /\ UNCHANGED other_than_sse

\* Lines 67-91: a later tick selects the rows with number > cursor in
\* ascending order, yields one event per row and moves the cursor to each.
SsePoll ==
    /\ sse.last_block_number # NoBlockNumber
    /\ LET new_blocks == Ascending({n \in DOMAIN db.blocks : n > sse.last_block_number})
       IN /\ new_blocks # << >>
          /\ sse' = [sse EXCEPT
                       !.last_block_number = new_blocks[Len(new_blocks)],
                       !.emitted = @ \o new_blocks]
    /\ UNCHANGED other_than_sse

\* The indexer with empty blocks (the stream reads the blocks table only).
InitSse == Init /\ chain = [n \in Blocks |-> EmptyBlock]

NextSse ==
    \/ Next
    \/ SseSeed
    \/ SsePoll

\* The indexer process and one client of the API's event stream.
SpecSse == InitSse /\ [][NextSse]_vars

\* ------------------------------------------------------------------------
\* The metadata UPDATEs on the rows the indexer inserted
\* (metadata.rs:221-463, atlas-api handlers/nfts.rs:183-244)
\* ------------------------------------------------------------------------

\* fetch_nft_contract_metadata / fetch_erc20_contract_metadata: one UPDATE
\* on a row selected with metadata_fetched = false, for a fetch that returned
\* the values (COALESCE($2, name) is then $2).
StoreContractMetadata(table) ==
    /\ \E a \in DOMAIN db[table] :
          /\ ~db[table][a].metadata_fetched
          /\ db' = [db EXCEPT ![table][a] =
                        [@ EXCEPT !.name = "fetched", !.metadata_fetched = TRUE]]
    /\ UNCHANGED other_than_db

\* fetch_and_store_token_metadata, and the on-demand fetch of the API's
\* token handler, for a token whose URI and document were fetched: token_uri
\* is stored and metadata_fetched set.
StoreTokenMetadata ==
    /\ \E k \in DOMAIN db.nft_tokens :
          /\ ~db.nft_tokens[k].metadata_fetched
          /\ db' = [db EXCEPT !.nft_tokens[k] =
                        [@ EXCEPT !.token_uri = "fetched", !.metadata_fetched = TRUE]]
    /\ UNCHANGED other_than_db

\* The indexer on a chain whose blocks mint and move the token, with the
\* metadata fetcher and the API writing to the same tables.
InitBackfill ==
    Init /\ chain = [n \in Blocks |-> IF n % 2 = 0 THEN MintBlock ELSE MoveBlock]

NextBackfill ==
    \/ Next
    \/ StoreContractMetadata("nft_contracts")
    \/ StoreContractMetadata("erc20_contracts")
    \/ StoreTokenMetadata

SpecBackfill == InitBackfill /\ [][NextBackfill]_vars

\* ------------------------------------------------------------------------
\* normalize_address (atlas-api handlers/contracts.rs:510-517)
\* ------------------------------------------------------------------------

\* The characters the address strings are made of: a white-space character,
\* the two characters of the prefix, the upper-case form of the second, and
\* a hex digit in both cases.
Chars == {" ", "0", "x", "X", "a", "A"}

IsWhitespace(c) == c = " "

\* char::to_lowercase.
LowerChar(c) == IF c = "X" THEN "x" ELSE IF c = "A" THEN "a" ELSE c

\* str::to_lowercase.
ToLowercase(str) == [i \in 1..Len(str) |-> LowerChar(str[i])]

\* str::trim: the slice without its leading and trailing white space.
Trim(str) ==
    LET black == {i \in 1..Len(str) : ~IsWhitespace(str[i])}
    IN IF black = {} THEN << >>
       ELSE SubSeq(str, CHOOSE i \in black : \A j \in black : i <= j,
                        CHOOSE i \in black : \A j \in black : i >= j)

\* str::starts_with.
StartsWith(str, prefix) ==
    Len(str) >= Len(prefix) /\ SubSeq(str, 1, Len(prefix)) = prefix

\* The function with `address.to_lowercase()` for `address.trim().to_lowercase()`.
normalize_address_untrimmed(address) ==
    LET addr == ToLowercase(address)
    IN IF StartsWith(addr, << "0", "x" >>) THEN addr ELSE << "0", "x" >> \o addr

normalize_address(address) ==
    LET addr == ToLowercase(Trim(address))
    IN IF StartsWith(addr, << "0", "x" >>) THEN addr ELSE << "0", "x" >> \o addr

\* The strings a request can carry as its address.
AddressStrings == UNION {[1..n -> Chars] : n \in 0..MaxAddressLen}

\* A handler normalises the address it received, or what an earlier
\* normalisation returned (a stored address that comes back in a request).
Normalize ==
    /\ Len(norm.results) < MaxCalls
    /\ LET arg == IF norm.results = << >> THEN norm.address
                  ELSE norm.results[Len(norm.results)]
       IN norm' = [norm EXCEPT !.results = Append(@, normalize_address(arg))]
    /\ UNCHANGED other_than_norm

InitNormalize ==
    /\ IndexerIdle
    /\ sup = SupervisorsStart
    /\ parts = PartitionsStart
    /\ pool = PoolStart(1, 1, 1)
    /\ meta = MetaStart(1)
    /\ sse = SseStart
    /\ norm \in [address : AddressStrings, results : {<< >>}]

NextNormalize == Normalize

SpecNormalize == InitNormalize /\ [][NextNormalize]_vars

\* ------------------------------------------------------------------------
\* Properties
\* ------------------------------------------------------------------------

Watermark == db.last_indexed_block

\* The positions of the logs of block n that collect_block turns into an
\* event_logs row: those with a topic0.
IndexedLogsOf(n) == {i \in 1..Len(chain[n].logs) : chain[n].logs[i].ntopics > 0}

\* The block row of n and every row derived from block n are persisted.
BlockPersisted(n) ==
    /\ n \in DOMAIN db.blocks
    /\ \A i \in 1..Len(chain[n].txs) : << TxHash(n, i), n >> \in DOMAIN db.transactions
    /\ \A i \in IndexedLogsOf(n) :
           << TxHash(n, chain[n].logs[i].tx), i - 1, n >> \in DOMAIN db.event_logs

\* The blocks of the current window whose main fetch returned r.
ResultsOf(r) == {n \in DOMAIN hist.results : hist.results[n] = r}

BatchNumbers(b) == {b.b_rows[i].number : i \in 1..Len(b.b_rows)}

\* C1: across main commits, failed commits and sideline mini-batch commits,
\* the persisted indexer_state.last_indexed_block never decreases.
C1_WatermarkNeverDecreases ==
    [][db'.last_indexed_block >= db.last_indexed_block]_vars

\* C2: a sideline mini-batch commit leaves indexer_state.last_indexed_block
\* unchanged; only the main window write sets the watermark.
C2_MiniBatchKeepsWatermark ==
    [][(pc = "sideline" /\ hist'.wm_writes = hist.wm_writes + 1)
          => db'.last_indexed_block = db.last_indexed_block]_vars

\* C3: if last_indexed_block = H then every block in [0..H] is persisted
\* with the rows derived from it.
C3_WatermarkImpliesPrefix ==
    Watermark # NoWatermark => \A n \in 0..Watermark : BlockPersisted(n)

\* C4: if exactly one block of the window failed in the main fetch and its
\* sideline retry succeeded, then when the loop moves on to the next window
\* all blocks of the window are persisted, the watermark is the window's
\* last block and failed_blocks is empty.
C4_OneFailureRecovered ==
    (/\ pc = "advance"
     /\ Cardinality(ResultsOf("err")) = 1
     /\ hist.retried = ResultsOf("err"))
    => /\ \A n \in current_block..end_block : BlockPersisted(n)
       /\ Watermark = end_block
       /\ failed_blocks = << >>
       /\ DOMAIN db.failed_blocks = {}

\* What in-order delivery of the window's results collects: every block whose
\* result is Success, in ascending order.
RECURSIVE InOrderBatch(_, _)
InOrderBatch(b, n) ==
    IF n > end_block THEN b
    ELSE LET nb == IF hist.results[n] = "ok"
                   THEN collect_block(b, known_erc20, known_nft, n, chain[n])
                   ELSE b
         IN IF nb.last_block >= 0 THEN InOrderBatch(nb, n + 1) ELSE nb

\* C5: for the same fetch results, every delivery order commits the rows
\* in-order delivery commits, and the watermark is written exactly once, to
\* the window's last block, by the window commit.
C5_ArrivalOrderIndependent ==
    /\ pc = "write" =>
           write_batch(db, batch) = write_batch(db, InOrderBatch(NewBatch, current_block))
    /\ pc = "advance" => (hist.wm_writes = 1 /\ Watermark = end_block)

\* C6: an Error result never keeps later blocks from being collected: when
\* the receive loop exits the reorder buffer is empty and every block whose
\* result was Success has been collected.
C6_ErrorDoesNotStallWindow ==
    pc = "write" => (buffer = {} /\ ResultsOf("ok") \subseteq BatchNumbers(batch))

\* C7: within a window collect_block runs on strictly increasing block
\* numbers whatever the arrival order, so the batch's block-number column is
\* strictly ascending and batch.last_block is the largest number collected.
C7_CollectStrictlyAscending ==
    /\ \A i, j \in 1..Len(batch.b_rows) :
           i < j => batch.b_rows[i].number < batch.b_rows[j].number
    /\ batch.b_rows # << >> =>
           \A n \in BatchNumbers(batch) : n <= batch.last_block
    /\ batch.b_rows # << >> => batch.last_block \in BatchNumbers(batch)

\* C7 witness: a window whose results arrived out of order is ready to be
\* written with at least two blocks collected.
C7_Witness ==
    pc = "write" /\ hist.out_of_order /\ Len(batch.b_rows) >= 2

\* C8: committing the same batch twice leaves every table as committing it
\* once does.
C8_CommitTwiceSameAsOnce ==
    pc = "write" =>
        write_batch(write_batch(db, batch), batch) = write_batch(db, batch)

RECURSIVE SumValues(_)
SumValues(rows) ==
    IF rows = {} THEN 0
    ELSE LET r == CHOOSE x \in rows : TRUE
         IN r.value + SumValues(rows \ {r})

\* Sum of the persisted erc20_transfers to the address minus those from it.
LedgerBalance(address, contract) ==
    LET ts == {t \in Range(db.erc20_transfers) : t.contract = contract}
    IN SumValues({t \in ts : t.to = address}) - SumValues({t \in ts : t.from = address})

\* C9: for every (address, contract) with a non-zero address, the balance
\* row equals the sum of the persisted transfers to the address minus the
\* sum of those from it.
C9_BalanceEqualsLedger ==
    \A k \in DOMAIN db.erc20_balances :
        k[1] # ZERO_ADDRESS => db.erc20_balances[k].balance = LedgerBalance(k[1], k[2])

\* The persisted transfers of one token.
TransfersOf(k) ==
    {t \in Range(db.nft_transfers) : t.contract = k[1] /\ t.token_id = k[2]}

Later(t, u) ==
    \/ t.block_number > u.block_number
    \/ t.block_number = u.block_number /\ t.log_index >= u.log_index

\* C10: each nft_tokens row's owner is the `to` of the token's persisted
\* transfer with the greatest block number (ties: greatest log index), and
\* last_transfer_block is that block number.
C10_OwnerIsLatestTransfer ==
    \A k \in DOMAIN db.nft_tokens :
        /\ TransfersOf(k) # {}
        /\ \A t \in TransfersOf(k) :
               (\A u \in TransfersOf(k) : Later(t, u))
                   => /\ db.nft_tokens[k].owner = t.to
                      /\ db.nft_tokens[k].last_transfer_block = t.block_number

\* C10 witness: a sideline mini-batch committed an earlier block that mints
\* the token to 0xa after a later block that moved it to 0xb was committed.
C10_Witness ==
    \E n \in hist.retried :
        /\ chain[n] = MintBlock
        /\ << "0xnft", 7 >> \in DOMAIN db.nft_tokens
        /\ db.nft_tokens[<< "0xnft", 7 >>].last_transfer_block > n
        /\ db.nft_tokens[<< "0xnft", 7 >>].owner = "0xb"

\* The positions in block n of the logs the ERC-20 arm of collect_block takes.
Erc20LogsOf(n) ==
    {i \in 1..Len(chain[n].logs) :
        /\ chain[n].logs[i].topic0 = TRANSFER_TOPIC
        /\ chain[n].logs[i].ntopics = 3
        /\ chain[n].logs[i].datalen >= 32}

\* For batch b: every ERC-20 Transfer log of a collected block has exactly
\* one row in et_rows and et_rows has no other row; no key of the balance map
\* has the zero address; and the delta of each key is the sum of the batch's
\* transfers to the address minus the sum of those from it, so that a mint
\* credits only `to` and a burn debits only `from`.
Erc20Collected(b) ==
    LET rows == Range(b.et_rows)
        sides == {<< r.from, r.contract >> : r \in rows}
                     \cup {<< r.to, r.contract >> : r \in rows}
    IN /\ \A n \in BatchNumbers(b) : \A i \in Erc20LogsOf(n) :
              Cardinality({j \in 1..Len(b.et_rows) :
                  /\ b.et_rows[j].block_number = n
                  /\ b.et_rows[j].log_index = i - 1
                  /\ b.et_rows[j].from = chain[n].logs[i].from
                  /\ b.et_rows[j].to = chain[n].logs[i].to
                  /\ b.et_rows[j].value = chain[n].logs[i].amount}) = 1
       /\ \A j \in 1..Len(b.et_rows) :
              /\ b.et_rows[j].block_number \in BatchNumbers(b)
              /\ b.et_rows[j].log_index + 1 \in Erc20LogsOf(b.et_rows[j].block_number)
       /\ \A k \in DOMAIN b.balance_map : k[1] # ZERO_ADDRESS
       /\ DOMAIN b.balance_map = {k \in sides : k[1] # ZERO_ADDRESS}
       /\ \A k \in DOMAIN b.balance_map :
              b.balance_map[k].delta =
                  SumValues({r \in rows : r.contract = k[2] /\ r.to = k[1]})
                  - SumValues({r \in rows : r.contract = k[2] /\ r.from = k[1]})

\* C11: every ERC-20 Transfer log collected appends exactly one transfer row,
\* and neither the balance map of the window's batch or of the mini-batch of
\* a sideline retry nor erc20_balances has an entry for the zero address: a
\* mint credits only `to`, a burn debits only `from`.
C11_ZeroAddressHasNoBalance ==
    /\ batch.b_rows # << >> => Erc20Collected(batch)
    /\ pc = "sideline" =>
           Erc20Collected(collect_block(NewBatch, known_erc20, known_nft,
                                        failed_blocks[retry_idx],
                                        chain[failed_blocks[retry_idx]]))
    /\ \A k \in DOMAIN db.erc20_balances : k[1] # ZERO_ADDRESS

\* C11 witness: the batch of a window that is ready to be written holds a
\* mint and a burn.
C11_Witness ==
    /\ pc = "write"
    /\ \E i \in 1..Len(batch.et_rows) : batch.et_rows[i].from = ZERO_ADDRESS
    /\ \E i \in 1..Len(batch.et_rows) : batch.et_rows[i].to = ZERO_ADDRESS
    /\ batch.balance_map # EmptyMap

\* C12: the known sets are the address sets of the contract tables: after
\* every successful write_batch (main or mini-batch) with its merge
\* known_erc20 is the set of addresses in erc20_contracts and known_nft the
\* set of addresses in nft_contracts, and a write_batch that returned Err
\* leaves them unmerged, so that the equality holds in every state.
C12_KnownSetsMatchContracts ==
    /\ known_erc20 = DOMAIN db.erc20_contracts
    /\ known_nft = DOMAIN db.nft_contracts

\* C12 witness: a window commit and a mini-batch commit have happened and
\* both known sets hold contracts.
C12_Witness ==
    /\ pc = "advance"
    /\ hist.retried # {}
    /\ hist.wm_writes = 2
    /\ known_erc20 # {}
    /\ known_nft # {}

\* Some row derived from block n is visible.
AnyRowOf(n) ==
    \/ n \in DOMAIN db.blocks
    \/ \E k \in DOMAIN db.transactions : k[2] = n
    \/ \E h \in DOMAIN db.tx_hash_lookup : db.tx_hash_lookup[h] = n
    \/ \E k \in DOMAIN db.event_logs : k[3] = n
    \/ \E k \in DOMAIN db.nft_transfers : k[3] = n
    \/ \E k \in DOMAIN db.erc20_transfers : k[3] = n

\* Every row derived from block n is visible.
AllRowsOf(n) ==
    /\ BlockPersisted(n)
    /\ \A i \in 1..Len(chain[n].txs) : TxHash(n, i) \in DOMAIN db.tx_hash_lookup
    /\ \A i \in 1..Len(chain[n].logs) :
           LET log == chain[n].logs[i]
               k == << TxHash(n, log.tx), i - 1, n >>
           IN /\ (log.topic0 = TRANSFER_TOPIC /\ log.ntopics = 4)
                     => k \in DOMAIN db.nft_transfers
              /\ i \in Erc20LogsOf(n) => k \in DOMAIN db.erc20_transfers

\* A step in which write_batch (of the window or of a mini-batch) returns Err.
WriteBatchFails == pc \in {"write", "sideline"} /\ pc' = "failed"

\* C13: when write_batch fails at any statement the tables, the watermark
\* among them, and the known-contract sets are as before the call; and in
\* no reachable state is only a part of a block's rows visible.
C13_FailedWriteLeavesNothing ==
    /\ [](\A n \in Blocks : AnyRowOf(n) => AllRowsOf(n))
    /\ [][WriteBatchFails =>
            /\ db' = db
            /\ known_erc20' = known_erc20
            /\ known_nft' = known_nft]_vars

\* C13 witness: run() has returned the Err of a write_batch that came after
\* an earlier commit.
C13_Witness ==
    /\ pc = "failed"
    /\ hist.write_failed_at # NoWriteFailure
    /\ db.last_indexed_block # NoWatermark
    /\ db.erc20_balances # EmptyMap

\* C14: after a write failure in a window that starts at block c, the
\* restarted run() begins its first window at c, whatever the earlier
\* windows were.
C14_RestartRefetchesSameWindow ==
    (pc = "head" /\ hist.write_failed_at # NoWriteFailure)
        => current_block = hist.write_failed_at

\* The number of single-block re-fetches of block n in this window.
RefetchesOf(h, n) == IF n \in DOMAIN h.refetches THEN h.refetches[n] ELSE 0

\* C15: a block whose main fetch returned Error is re-fetched alone at most
\* 3 times, each time after the sleeps 2 s, 4 s, 6 s of the attempts so far;
\* the first retry that succeeds writes it in a mini-batch and it is not
\* fetched again; and when the sideline is through, the block has been
\* inserted into failed_blocks if and only if its three retries failed.
C15_SidelineRetries ==
    /\ [](/\ \E k \in 0..3 : hist.waits = SubSeq(<< 2, 4, 6 >>, 1, k)
          /\ \A n \in DOMAIN hist.refetches :
                 /\ n \in ResultsOf("err")
                 /\ hist.refetches[n] <= 3
                 /\ hist.refetches[n] <= Len(hist.waits)
          /\ \A n \in hist.retried : AllRowsOf(n)
          /\ pc = "advance" =>
                 \A n \in ResultsOf("err") :
                     /\ n \in hist.stored <=>
                            (n \notin hist.retried /\ RefetchesOf(hist, n) = 3)
                     /\ n \in hist.stored => n \in DOMAIN db.failed_blocks
                     /\ n \notin hist.stored => n \in hist.retried)
    /\ [][\A n \in Blocks :
            RefetchesOf(hist', n) > RefetchesOf(hist, n)
                => /\ n \notin hist.retried
                   /\ RefetchesOf(hist', n) = RefetchesOf(hist, n) + 1]_vars

\* C15 witness: the sideline is through after a block was written by its
\* third retry.
C15_Witness ==
    /\ pc = "advance"
    /\ hist.waits = << 2, 4, 6 >>
    /\ hist.retried # {}

\* C15 witness of the other case: a block failed its three retries and was
\* inserted into failed_blocks.
C15_WitnessStored ==
    /\ pc = "advance"
    /\ hist.stored # {}

\* C16: fetch_blocks_batch(start, count) returns exactly count results, the
\* j-th being the one result (Success or Error) of block start + j - 1, both
\* after a response was processed and after the retries were exhausted.
C16_OneResultPerBlock ==
    fetch.pc = "returned" =>
        /\ Len(fetch.results) = fetch.count
        /\ \A j \in 1..fetch.count :
               /\ fetch.results[j].tag \in {"Success", "Error"}
               /\ fetch.results[j].number = fetch.start_block + (j - 1)

\* C16 witness: a call for MaxCount blocks returned from a processed
\* response with an Error and a Success among its results.
C16_Witness ==
    /\ fetch.pc = "returned"
    /\ fetch.count = MaxCount
    /\ fetch.i = fetch.count
    /\ \E j \in 1..fetch.count : fetch.results[j].tag = "Error"
    /\ \E j \in 1..fetch.count : fetch.results[j].tag = "Success"

\* C16 witness of the other path: a call for MaxCount blocks returned after
\* its retries were exhausted.
C16_WitnessExhausted ==
    /\ fetch.pc = "returned"
    /\ fetch.count = MaxCount
    /\ fetch.attempt = RPC_MAX_RETRIES

\* C17: when the response array has no element with the id of the block
\* request or of the receipts request of a block, the result pushed for that
\* block is an Error.
C17_MissingIdIsError ==
    (/\ fetch.pc \in {"respond", "returned"}
     /\ fetch.i > 0
     /\ (fetch.block_resp = Missing \/ fetch.receipts_resp = Missing))
    => fetch.results[fetch.i].tag = "Error"

\* The sleeps of a retry loop all of whose attempts fail.
ExpectedSleeps == << 2, 5, 10, 20, 30, 30, 30, 30, 30, 30 >>

\* C18: the batch request is sent at most 10 times, the k-th failed attempt
\* is followed by a sleep of 2, 5, 10, 20, 30 and then always 30 seconds;
\* when no attempt succeeded the call returns an Error for each of its count
\* blocks; and every call returns.
C18_RetryLoopTerminates ==
    /\ [](/\ fetch.attempt <= 10
          /\ Len(fetch.sleeps) = fetch.attempt
          /\ \A k \in 1..Len(fetch.sleeps) : fetch.sleeps[k] = ExpectedSleeps[k]
          /\ (fetch.pc = "returned" /\ fetch.i = 0) =>
                 /\ fetch.attempt = RPC_MAX_RETRIES
                 /\ Len(fetch.results) = fetch.count
                 /\ \A j \in 1..fetch.count :
                        /\ fetch.results[j].tag = "Error"
                        /\ fetch.results[j].number = fetch.start_block + (j - 1))
    /\ (fetch.pc = "limiter" ~> fetch.pc = "returned")

\* C18 witness: a call for MaxCount blocks returned after ten failed
\* attempts, the last error being a body that did not parse.
C18_Witness ==
    /\ fetch.pc = "returned"
    /\ fetch.count = MaxCount
    /\ Len(fetch.sleeps) = 10
    /\ fetch.last_error = "Failed to parse response"
    /\ Len(fetch.results) = MaxCount

\* C19: every send of a count-block batch, a re-send after a transport or
\* parse failure included, comes with 2*count rate-limiter tokens acquired
\* for it, one per JSON-RPC call in it.
C19_TokensPerBatchSend ==
    sent.method = "batch" => sent.tokens = sent.calls

\* C20: every outbound JSON-RPC request, whether a block/receipt batch, a
\* chain-head query or an eth_call of the metadata fetcher, was preceded by
\* the acquisition of a rate-limiter token for each call in it.
C20_EveryCallTakesToken ==
    sent.method \in {"batch", "eth_blockNumber", "eth_call"}
        => sent.tokens >= sent.calls

\* ------------------------------------------------------------------------
\* Addresses, logs and bookkeeping tables
\* ------------------------------------------------------------------------

\* The event_logs rows of batch b for the log at position i of block n.
LogRowsOf(b, n, i) ==
    {j \in 1..Len(b.el_rows) :
        /\ b.el_rows[j].block_number = n
        /\ b.el_rows[j].log_index = i - 1
        /\ b.el_rows[j].tx_hash = TxHash(n, chain[n].logs[i].tx)}

\* C29: every log of every receipt of a collected block has exactly one
\* event_logs row in the batch and its emitter is in the batch's address
\* map with is_contract = true; and every address that has emitted a log in
\* a persisted block has an addresses row with is_contract = true.
C29_EveryLogHasRowAndContractEmitter ==
    /\ \A n \in BatchNumbers(batch) : \A i \in 1..Len(chain[n].logs) :
           /\ Cardinality(LogRowsOf(batch, n, i)) = 1
           /\ chain[n].logs[i].address \in DOMAIN batch.addr_map
           /\ batch.addr_map[chain[n].logs[i].address].is_contract
    /\ \A n \in DOMAIN db.blocks : \A i \in 1..Len(chain[n].logs) :
           /\ chain[n].logs[i].address \in DOMAIN db.addresses
           /\ db.addresses[chain[n].logs[i].address].is_contract

\* The addresses the chain mentions.
Addresses == {"0xa", "0xb", "0xc20", "0xnft", "0xanon", "0xnew"}

\* An addresses row (or a batch entry) new replaces old without losing
\* is_contract, raising first_seen_block or lowering the count.
RowKeeps(old, new, old_count, new_count) ==
    /\ old.is_contract => new.is_contract
    /\ new.first_seen_block <= old.first_seen_block
    /\ new_count >= old_count

\* C28: in every step a row of addresses stays a row, its is_contract does
\* not go from true to false, its first_seen_block does not increase and its
\* tx_count does not decrease; the same for an entry of the batch's address
\* map while the batch accumulates, and for any further touch_addr on it.
C28_AddressRowsMonotone ==
    /\ [](\A a \in DOMAIN batch.addr_map : \A n \in Blocks :
            \A c \in BOOLEAN : \A delta \in {0, 1} :
                LET old == batch.addr_map[a]
                    new == touch_addr(batch, a, n, c, delta).addr_map[a]
                IN RowKeeps(old, new, old.tx_count_delta, new.tx_count_delta))
    /\ [][/\ \A a \in DOMAIN db.addresses :
                /\ a \in DOMAIN db'.addresses
                /\ RowKeeps(db.addresses[a], db'.addresses[a],
                            db.addresses[a].tx_count, db'.addresses[a].tx_count)
          /\ \A a \in (DOMAIN batch.addr_map) \cap (DOMAIN batch'.addr_map) :
                RowKeeps(batch.addr_map[a], batch'.addr_map[a],
                         batch.addr_map[a].tx_count_delta,
                         batch'.addr_map[a].tx_count_delta)]_vars

\* C28 witness: a later window has committed on top of rows of an earlier
\* window: a contract row and a row with two transactions first seen before
\* the window.
C28_Witness ==
    /\ pc = "advance"
    /\ hist.wm_writes >= 1
    /\ current_block > StartBlock
    /\ \E a \in DOMAIN db.addresses :
          /\ db.addresses[a].first_seen_block < current_block
          /\ db.addresses[a].tx_count >= 2
    /\ \E a \in DOMAIN db.addresses :
          /\ db.addresses[a].first_seen_block < current_block
          /\ db.addresses[a].is_contract

\* The transactions of the blocks collected into batch b, as (block, index)
\* pairs, that satisfy P.
TxsWhere(b, P(_)) ==
    UNION {{<< n, i >> : i \in {j \in 1..Len(chain[n].txs) : P(chain[n].txs[j])}} :
              n \in BatchNumbers(b)}

\* The collected blocks in which collect_block touches address a: a is the
\* sender, the receiver or the created contract of a transaction, or the
\* emitter of a log that has a topic0.
TouchingBlocks(b, a) ==
    {n \in BatchNumbers(b) :
        \/ \E i \in 1..Len(chain[n].txs) :
              a \in {chain[n].txs[i].from, chain[n].txs[i].to, chain[n].txs[i].created}
        \/ \E i \in IndexedLogsOf(n) : chain[n].logs[i].address = a}

\* a appears in the collected blocks only as a created contract.
OnlyCreated(b, a) ==
    /\ TxsWhere(b, LAMBDA t : t.created = a) # {}
    /\ TxsWhere(b, LAMBDA t : t.from = a \/ t.to = a) = {}
    /\ \A n \in BatchNumbers(b) : \A i \in IndexedLogsOf(n) : chain[n].logs[i].address # a

\* C30: in the batch, an address has an entry exactly if a collected block
\* touches it; its tx_count delta is the number of collected transactions
\* it sends plus the number it receives; its first_seen_block is the
\* smallest collected block that touches it; and an address that is only a
\* created contract has delta 0 and is_contract = true.
C30_TxCountDeltaIsSenderPlusReceiver ==
    \A a \in Addresses :
        /\ a \in DOMAIN batch.addr_map <=> TouchingBlocks(batch, a) # {}
        /\ a \in DOMAIN batch.addr_map =>
              /\ batch.addr_map[a].tx_count_delta =
                     Cardinality(TxsWhere(batch, LAMBDA t : t.from = a))
                     + Cardinality(TxsWhere(batch, LAMBDA t : t.to = a))
              /\ \A n \in TouchingBlocks(batch, a) :
                     batch.addr_map[a].first_seen_block <= n
              /\ batch.addr_map[a].first_seen_block \in TouchingBlocks(batch, a)
              /\ OnlyCreated(batch, a) =>
                     /\ batch.addr_map[a].tx_count_delta = 0
                     /\ batch.addr_map[a].is_contract

\* C30 witness: a batch of several blocks holds a created-only contract, an
\* address that sent to itself, and an address touched by two of its blocks.
C30_Witness ==
    /\ Len(batch.b_rows) >= 2
    /\ \E a \in DOMAIN batch.addr_map : OnlyCreated(batch, a)
    /\ \E a \in DOMAIN batch.addr_map :
          TxsWhere(batch, LAMBDA t : t.from = a /\ t.to = a) # {}
    /\ \E a \in DOMAIN batch.addr_map :
          /\ Cardinality(TouchingBlocks(batch, a)) >= 2
          /\ batch.addr_map[a].tx_count_delta >= 3

\* C25: every row of failed_blocks has retry_count >= 3, and it still has
\* after the insert is run again for a block that is already recorded or
\* for a block that is not.
C25_FailedBlocksRetryCount ==
    /\ \A n \in DOMAIN db.failed_blocks : db.failed_blocks[n] >= SidelineAttempts
    /\ \A n \in Blocks :
          LET again == InsertFailedBlocks(db.failed_blocks, << n >>, 1)
          IN /\ again[n] >= SidelineAttempts
             /\ n \in DOMAIN db.failed_blocks =>
                    again[n] = db.failed_blocks[n] + SidelineAttempts

\* C25 witness: a block that failed its main fetch and its three retries has
\* been recorded.
C25_Witness ==
    /\ pc = "advance"
    /\ hist.stored # {}
    /\ \E n \in hist.stored : n \in DOMAIN db.failed_blocks

\* The addresses of a sequence of new-contract rows are pairwise different
\* and none of them is in the known set.
NewContractsOnce(rows, known) ==
    /\ \A i, j \in 1..Len(rows) : i # j => rows[i].address # rows[j].address
    /\ \A i \in 1..Len(rows) : rows[i].address \notin known

\* For batch b collected against the known sets ke and kn: each of the three
\* maps has exactly one entry per key the collected rows mention, and the
\* new-contract columns hold each new contract once and no known contract.
OneEntryPerKey(b, ke, kn) ==
    LET t == Range(b.t_rows)
        touched == {r.from : r \in t}
                     \cup {r.to : r \in {x \in t : x.to # NoAddr}}
                     \cup {r.contract_created : r \in {x \in t : x.contract_created # NoAddr}}
                     \cup {r.address : r \in Range(b.el_rows)}
        sides == {<< r.from, r.contract >> : r \in Range(b.et_rows)}
                     \cup {<< r.to, r.contract >> : r \in Range(b.et_rows)}
    IN /\ DOMAIN b.addr_map = touched
       /\ DOMAIN b.nft_token_map = {<< r.contract, r.token_id >> : r \in Range(b.nt_rows)}
       /\ DOMAIN b.balance_map = {k \in sides : k[1] # ZERO_ADDRESS}
       /\ NewContractsOnce(b.nft_contract_rows, kn)
       /\ NewContractsOnce(b.ec_rows, ke)
       /\ {r.address : r \in Range(b.nft_contract_rows)} = b.new_nft
       /\ {r.address : r \in Range(b.ec_rows)} = b.new_erc20
       /\ \A r \in Range(b.nt_rows) : r.contract \in kn \cup b.new_nft
       /\ \A r \in Range(b.et_rows) : r.contract \in ke \cup b.new_erc20

\* C33: the batch of a window and the mini-batch of a sideline retry hold,
\* when they are written, one entry per address, per (contract, token_id)
\* and per (address, contract), and their new-contract columns hold no
\* duplicate and no contract of the known set.
C33_OneEntryPerKey ==
    /\ pc = "write" => OneEntryPerKey(batch, known_erc20, known_nft)
    /\ pc = "sideline" =>
           OneEntryPerKey(collect_block(NewBatch, known_erc20, known_nft,
                                        failed_blocks[retry_idx],
                                        chain[failed_blocks[retry_idx]]),
                          known_erc20, known_nft)

\* C33 witness: a batch of three blocks with four transfers of one token
\* and several ERC-20 transfers of one contract is about to be written with
\* one token entry and each contract registered once.
C33_Witness ==
    /\ pc = "write"
    /\ Len(batch.b_rows) >= 3
    /\ Len(batch.nt_rows) >= 4
    /\ Cardinality(DOMAIN batch.nft_token_map) = 1
    /\ Len(batch.nft_contract_rows) = 1
    /\ Len(batch.ec_rows) = 1

\* C33 witness: a window after the first transfers tokens of contracts that
\* are in the known sets, and registers none.
C33_WitnessKnown ==
    /\ pc = "write"
    /\ batch.nt_rows # << >>
    /\ batch.et_rows # << >>
    /\ batch.nft_contract_rows = << >>
    /\ batch.ec_rows = << >>

\* C34: when the loop is about to set current_block = end_block + 1, every
\* block of the window has its block row or a failed_blocks row.
C34_NoBlockDroppedSilently ==
    pc = "advance" =>
        \A n \in current_block..end_block :
            n \in DOMAIN db.blocks \/ n \in DOMAIN db.failed_blocks

\* C35: the block of the watermark is persisted; the watermark changes only
\* in a step in which write_batch commits, to a block of the batch that
\* step commits; and write_batch of a batch without blocks leaves every
\* table as it is.
C35_WatermarkBlockPersisted ==
    /\ [](Watermark # NoWatermark => BlockPersisted(Watermark))
    /\ [][Watermark' # Watermark =>
             /\ pc \in {"write", "sideline"}
             /\ pc' # "failed"
             /\ Watermark' \in DOMAIN db'.blocks
             /\ pc = "write" => Watermark' \in BatchNumbers(batch)
             /\ pc = "sideline" => Watermark' = failed_blocks[retry_idx]]_vars
    /\ [][(pc = "write" /\ batch.b_rows = << >>) => db' = db]_vars

\* C35 witness: the write of a batch without blocks has returned Ok while
\* blocks of an earlier commit and their watermark are persisted.
C35_Witness ==
    /\ pc = "advance"
    /\ hist.results # EmptyMap
    /\ hist.wm_writes = 0
    /\ Watermark # NoWatermark
    /\ Watermark < current_block

\* C37: with REINDEX set, a call of run() after the first one (a restart by
\* the supervisor) leaves the tables and the watermark as they are.
C37_RestartDoesNotTruncate ==
    [][(pc = "start" /\ pc' = "head" /\ run_errors > 0) => db' = db]_vars

\* ------------------------------------------------------------------------
\* The supervisor
\* ------------------------------------------------------------------------

\* C24: the wait after the k-th failure of a supervised loop is 5, 10, 20,
\* 30, 60 seconds for k = 1..5 and 60 seconds for every later k; the
\* supervisor is always either running the loop or sleeping before the next
\* restart, and every failure is followed by a restart.
C24_SupervisorBackoff ==
    /\ [](\A t \in Tasks :
            /\ sup[t].pc \in {"running", "sleeping"}
            /\ Len(sup[t].waits) =
                   sup[t].retry_count + (IF sup[t].pc = "sleeping" THEN 1 ELSE 0)
            /\ \A k \in 1..Len(sup[t].waits) :
                   sup[t].waits[k] = CASE k = 1 -> 5
                                       [] k = 2 -> 10
                                       [] k = 3 -> 20
                                       [] k = 4 -> 30
                                       [] OTHER -> 60)
    /\ \A t \in Tasks : \A k \in 1..MaxFailures :
          (sup[t].pc = "sleeping" /\ Len(sup[t].waits) = k)
              ~> (sup[t].pc = "running" /\ sup[t].retry_count = k)

\* C24 witness: the indexer's loop is running again after its sixth failure.
C24_Witness ==
    /\ sup["indexer"].pc = "running"
    /\ Len(sup["indexer"].waits) >= 6

\* ------------------------------------------------------------------------
\* Partitions
\* ------------------------------------------------------------------------

\* C21: when a call ensure_partitions_exist(n) has returned Ok, every
\* partition k in 0..n/10,000,000 exists for each of the five partitioned
\* parents.
C21_PartitionsExistAfterOk ==
    (parts.pc = "idle" /\ parts.result = "ok")
        => \A k \in 0..parts.partition_num : \A i \in 1..Len(PartitionedTables) :
               Partition(PartitionedTables[i], k) \in parts.exists

\* C38: a call that ends on a failed CREATE TABLE leaves the cached maximum
\* as it was when the creation loop began; the cached maximum never
\* decreases; and the partition of the cached maximum exists for all five
\* parents.
C38_CacheBelowExistingPartitions ==
    /\ [][(parts.pc = "create" /\ parts'.result = "err") =>
             parts'.current_max = parts.current_max]_vars
    /\ [][parts'.current_max >= parts.current_max]_vars
    /\ [](\A i \in 1..Len(PartitionedTables) :
             Partition(PartitionedTables[i], parts.current_max) \in parts.exists)

\* ------------------------------------------------------------------------
\* The worker pool
\* ------------------------------------------------------------------------

\* No task of the pool is in the middle of anything: the receive loop is not
\* waiting for results, no worker holds an item and no send_task is left.
PoolQuiescent ==
    /\ pool.pc # "recv"
    /\ \A w \in DOMAIN pool.workers : pool.workers[w].pc \in {"recv", "exited"}
    /\ DOMAIN pool.dispatchers = {}

\* C22: what the receive loop has taken is at most one result per block of
\* the window and, when the window completes, exactly one result for each
\* of its blocks, with both channels empty; no channel holds more than its
\* capacity; and the pool always comes to rest again: every window that has
\* started completes, every worker that holds an item gets back to
\* work_rx.recv() and every send_task ends.
C22_WindowCompletes ==
    /\ [](/\ Len(pool.work) <= WorkCapacity
          /\ Len(pool.results) <= ResultCapacity
          /\ pool.pc = "recv" =>
                /\ DOMAIN pool.received \subseteq pool.current_block..pool.end_block
                /\ \A n \in DOMAIN pool.received : pool.received[n] = 1
                /\ pool.blocks_received = Cardinality(DOMAIN pool.received))
    /\ [][(pool.pc = "recv" /\ pool'.pc = "top") =>
             /\ DOMAIN pool'.received = pool.current_block..pool.end_block
             /\ \A n \in DOMAIN pool'.received : pool'.received[n] = 1
             /\ pool'.work = << >>
             /\ pool'.results = << >>]_vars
    /\ []<>PoolQuiescent

\* C22 witness: both channels are full, a worker waits to send its result
\* and the receive loop has results left to take.
C22_Witness ==
    /\ pool.pc = "recv"
    /\ Len(pool.work) = WorkCapacity
    /\ Len(pool.results) = ResultCapacity
    /\ \E w \in DOMAIN pool.workers : pool.workers[w].pc = "send"

\* C22 witness: a send_task waits on the full work channel.
C22_WitnessDispatcherWaits ==
    /\ pool.pc = "recv"
    /\ Len(pool.work) = WorkCapacity
    /\ pool.end_block \in DOMAIN pool.dispatchers
    /\ pool.dispatchers[pool.end_block] <= pool.end_block

\* C22 witness: a window larger than both channels together has completed.
C22_WitnessComplete ==
    /\ pool.pc = "top"
    /\ pool.blocks_received > WorkCapacity + ResultCapacity

\* C23: once run() has returned Err, every fetch worker and every send_task
\* of that run eventually ends, and stays ended; before that no worker
\* ends.
C23_TasksOfFailedRunExit ==
    /\ (pool.pc = "returned")
          ~> [](/\ \A w \in DOMAIN pool.workers : pool.workers[w].pc = "exited"
                /\ DOMAIN pool.dispatchers = {})
    /\ [](pool.pc # "returned" =>
            \A w \in DOMAIN pool.workers : pool.workers[w].pc # "exited")

\* C23 witness: run() has returned Err after a window and all its workers
\* and send_tasks have ended.
C23_Witness ==
    /\ pool.pc = "returned"
    /\ pool.current_block > 0
    /\ pool.num_workers >= 2
    /\ \A w \in DOMAIN pool.workers : pool.workers[w].pc = "exited"
    /\ DOMAIN pool.dispatchers = {}

\* A send_task puts a WorkItem into the work channel.
ItemSent == Len(pool'.work) > Len(pool.work)

\* The WorkItem an ItemSent step has put into the channel.
SentItem == pool'.work[Len(pool'.work)]

\* The send_task of window e ends.
SendTaskEnds(e) == e \in DOMAIN pool.dispatchers /\ e \notin DOMAIN pool'.dispatchers

\* C32: the window ends at min(c + B - 1, head); its send_task sends the
\* items that start at c, c + K, c + 2K, ..., each of min(K, blocks left)
\* blocks, one after the other and only while the window is received, and
\* ends after the item that ends at e: ceil((e - c + 1) / K) items that are
\* consecutive, do not overlap and cover [c, e].
C32_WorkItemsPartitionWindow ==
    /\ [][(pool.pc = "top" /\ pool'.pc = "recv") =>
             /\ pool'.end_block = Min(pool.current_block + pool.batch_size - 1,
                                      MaxPoolBlock)
             /\ pool'.end_block <= MaxPoolBlock
             /\ pool'.end_block >= pool.current_block
             /\ pool'.end_block \in DOMAIN pool'.dispatchers
             /\ pool'.dispatchers[pool'.end_block] = pool.current_block]_vars
    /\ [][ItemSent =>
             LET e == pool.end_block
                 c == pool.current_block
                 K == pool.rpc_batch_size
             IN /\ pool.pc = "recv"
                /\ e \in DOMAIN pool.dispatchers
                /\ SentItem.start_block = pool.dispatchers[e]
                /\ SentItem.start_block \in c..e
                /\ (SentItem.start_block - c) % K = 0
                /\ SentItem.count = Min(K, e - SentItem.start_block + 1)
                /\ pool'.dispatchers[e] = SentItem.start_block + SentItem.count
                /\ \A x \in (DOMAIN pool.dispatchers) \ {e} :
                      pool'.dispatchers[x] = pool.dispatchers[x]]_vars
    /\ [][\A e \in 0..MaxPoolBlock :
             SendTaskEnds(e) /\ pool.pc # "returned" => pool.dispatchers[e] = e + 1]_vars
    /\ [][(pool.pc = "recv" /\ pool'.pc = "top") =>
             (pool.end_block \in DOMAIN pool.dispatchers =>
                 pool.dispatchers[pool.end_block] = pool.end_block + 1)]_vars

\* C32 witness: with K >= 2 the last item of a window of more than K blocks
\* is in the work channel and holds fewer than K blocks.
C32_Witness ==
    /\ pool.pc = "recv"
    /\ pool.rpc_batch_size >= 2
    /\ pool.end_block - pool.current_block + 1 > pool.rpc_batch_size
    /\ \E i \in 1..Len(pool.work) :
          /\ pool.work[i].count < pool.rpc_batch_size
          /\ pool.work[i].start_block + pool.work[i].count - 1 = pool.end_block

\* In how many places block n of the current window is: not yet sent by the
\* send_task, in a WorkItem of the work channel, in the unsent results of a
\* worker, in the result channel, or received.
PlacesOf(n) ==
    (IF pool.end_block \in DOMAIN pool.dispatchers
        /\ n \in pool.dispatchers[pool.end_block]..pool.end_block THEN 1 ELSE 0)
    + Cardinality({i \in 1..Len(pool.work) :
          /\ pool.work[i].start_block <= n
          /\ n < pool.work[i].start_block + pool.work[i].count})
    + Cardinality({w \in DOMAIN pool.workers :
          /\ pool.workers[w].pc = "send"
          /\ pool.workers[w].start_block + pool.workers[w].i <= n
          /\ n < pool.workers[w].start_block + pool.workers[w].count})
    + Cardinality({i \in 1..Len(pool.results) : pool.results[i] = n})
    + (IF n \in DOMAIN pool.received THEN pool.received[n] ELSE 0)

\* C36: when a window starts the work channel and the result channel are
\* empty, every worker waits for work and no send_task is left; while a
\* window is received every block of it is in exactly one place and no
\* block outside the window is anywhere, so each result received belongs
\* to the window and each block yields one result.
C36_WindowStartsClean ==
    /\ [](pool.pc = "top" =>
            /\ pool.work = << >>
            /\ pool.results = << >>
            /\ \A w \in DOMAIN pool.workers : pool.workers[w] = WorkerIdle)
    /\ [][(pool.pc = "top" /\ pool'.pc = "recv") =>
             /\ DOMAIN pool.dispatchers = {}
             /\ pool'.received = NoResults]_vars
    /\ [](pool.pc = "recv" =>
            /\ \A n \in pool.current_block..pool.end_block : PlacesOf(n) = 1
            /\ \A n \in (0..(MaxPoolBlock + MaxCount)) \ (pool.current_block..pool.end_block) :
                   PlacesOf(n) = 0)

\* C36 witness: a second window starts after a first one of several work
\* items was received by more than one worker.
C36_Witness ==
    /\ pool.pc = "recv"
    /\ pool.current_block > 0
    /\ pool.num_workers >= 2
    /\ pool.batch_size > pool.rpc_batch_size
    /\ pool.blocks_received = 0
    /\ pool.end_block \in DOMAIN pool.dispatchers
    /\ pool.dispatchers[pool.end_block] = pool.current_block

\* ------------------------------------------------------------------------
\* The metadata fetcher
\* ------------------------------------------------------------------------

\* A scan has ended: the phase has returned Ok(true).
ScanEnds == meta.pc \in {"spawn", "drain"} /\ meta'.pc = "select"

\* C26: at the end of a scan every row it selected has metadata_fetched =
\* true, and no row is selected by two scans.
C26_SelectedIsMarked ==
    /\ [][ScanEnds => \A t \in meta.scan : meta'.fetched[t]]_vars
    /\ [](meta.again = {})

\* C27: in every phase at most metadata_fetch_workers tasks are in flight.
C27_AtMostWorkersInFlight ==
    /\ Cardinality(meta.running) <= meta.workers
    /\ Len(meta.handles) <= meta.workers

\* C27 witness: metadata_fetch_workers = 2 tasks of the token phase are in
\* flight while a selected row waits for its turn.
C27_Witness ==
    /\ meta.workers >= 2
    /\ Phases[meta.phase] = "nft_tokens"
    /\ Cardinality(meta.running) = meta.workers
    /\ meta.pending # << >>

\* ------------------------------------------------------------------------
\* The event stream
\* ------------------------------------------------------------------------

\* How many new_block events the stream has yielded for block n.
EventsFor(n) == Cardinality({i \in 1..Len(sse.emitted) : sse.emitted[i] = n})

\* C31: a block that became visible after the cursor was seeded has exactly
\* one new_block event, or is above the cursor and is yielded by the next
\* tick; the events are in ascending order of block number.
C31_StreamEmitsEveryBlockOnce ==
    sse.last_block_number # NoBlockNumber =>
        /\ \A n \in (DOMAIN db.blocks) \ sse.visible_at_seed :
              \/ n > sse.last_block_number /\ EventsFor(n) = 0
              \/ EventsFor(n) = 1
        /\ \A i, j \in 1..Len(sse.emitted) : i < j => sse.emitted[i] < sse.emitted[j]

\* ------------------------------------------------------------------------
\* Metadata columns
\* ------------------------------------------------------------------------

MetadataTables == {"nft_contracts", "erc20_contracts", "nft_tokens"}

\* The metadata-owned columns of a row of table t.
MetadataOf(t, row) ==
    IF t = "nft_tokens"
    THEN << row.token_uri, row.metadata_fetched >>
    ELSE << row.name, row.metadata_fetched >>

\* The tables after the fetcher stored metadata for every row.
AllFetched(d) ==
    [d EXCEPT
        !.nft_contracts =
            [a \in DOMAIN @ |-> [@[a] EXCEPT !.name = "fetched", !.metadata_fetched = TRUE]],
        !.erc20_contracts =
            [a \in DOMAIN @ |-> [@[a] EXCEPT !.name = "fetched", !.metadata_fetched = TRUE]],
        !.nft_tokens =
            [k \in DOMAIN @ |-> [@[k] EXCEPT !.token_uri = "fetched", !.metadata_fetched = TRUE]]]

\* Committing b on d leaves every contract row of d as it was and the
\* metadata columns of every token row of d as they were.
CommitKeepsMetadata(d, b) ==
    LET after == write_batch(d, b)
    IN /\ \A a \in DOMAIN d.nft_contracts : after.nft_contracts[a] = d.nft_contracts[a]
       /\ \A a \in DOMAIN d.erc20_contracts : after.erc20_contracts[a] = d.erc20_contracts[a]
       /\ \A k \in DOMAIN d.nft_tokens :
              MetadataOf("nft_tokens", after.nft_tokens[k])
                  = MetadataOf("nft_tokens", d.nft_tokens[k])

\* C39: a step of the indexer leaves the metadata columns of every existing
\* contract and token row as they were, and no step at all takes
\* metadata_fetched from true back to false, while the metadata UPDATEs
\* interleave with the commits; and committing a batch whose contracts and
\* tokens are all registered and fetched already changes no contract row and
\* no metadata column of a token.
C39_CommitsKeepMetadataColumns ==
    /\ [][\A t \in MetadataTables : \A k \in DOMAIN db[t] :
              /\ k \in DOMAIN db'[t]
              /\ db[t][k].metadata_fetched => db'[t][k].metadata_fetched
              /\ other_than_db' # other_than_db =>
                     /\ MetadataOf(t, db'[t][k]) = MetadataOf(t, db[t][k])
                     /\ t # "nft_tokens" => db'[t][k] = db[t][k]]_vars
    /\ [](pc = "write" =>
              /\ CommitKeepsMetadata(db, batch)
              /\ CommitKeepsMetadata(AllFetched(write_batch(db, batch)), batch))

\* C39 witness: the batch about to be committed moves a token whose row and
\* whose contract row already had their metadata stored.
C39_Witness ==
    /\ pc = "write"
    /\ \E k \in DOMAIN batch.nft_token_map :
          /\ k \in DOMAIN db.nft_tokens
          /\ db.nft_tokens[k].metadata_fetched
          /\ db.nft_tokens[k].token_uri = "fetched"
          /\ db.nft_tokens[k].last_transfer_block < batch.nft_token_map[k].last_transfer_block
          /\ db.nft_contracts[k[1]].metadata_fetched
    /\ \E a \in DOMAIN db.erc20_contracts : db.erc20_contracts[a].name = "fetched"

\* ------------------------------------------------------------------------
\* Address normalisation
\* ------------------------------------------------------------------------

IsLowercase(str) == \A i \in 1..Len(str) : str[i] \notin {"X", "A"}

NoSurroundingWhitespace(str) ==
    str # << >> => ~IsWhitespace(str[1]) /\ ~IsWhitespace(str[Len(str)])

\* The characters of str from the first to the last that is not white space
\* occur in out in lower case, as the whole of out when they begin with the
\* prefix in either case, else after an added "0x".
NormalFormOf(str, out) ==
    \E i \in 1..(Len(str) + 1), j \in 0..Len(str) :
        /\ \A k \in 1..Len(str) : (k < i \/ k > j) => IsWhitespace(str[k])
        /\ i <= j => ~IsWhitespace(str[i]) /\ ~IsWhitespace(str[j])
        /\ LET core == [k \in 1..(IF i <= j THEN j - i + 1 ELSE 0) |->
                            LowerChar(str[i + k - 1])]
               prefixed == Len(core) >= 2 /\ core[1] = "0" /\ core[2] = "x"
           IN out = IF prefixed THEN core ELSE << "0", "x" >> \o core

\* C40: whatever string it is given, normalize_address returns a lower-case
\* string that begins with "0x", has no white space around it and is the
\* input without its surrounding white space, with the prefix added when it
\* was absent; normalising what it returned returns the same string.
C40_NormalizeAddressIdempotent ==
    /\ \A n \in 1..Len(norm.results) :
          /\ IsLowercase(norm.results[n])
          /\ Len(norm.results[n]) >= 2
          /\ norm.results[n][1] = "0" /\ norm.results[n][2] = "x"
          /\ NoSurroundingWhitespace(norm.results[n])
          /\ n > 1 => norm.results[n] = norm.results[n - 1]
    /\ norm.results # << >> => NormalFormOf(norm.address, norm.results[1])

\* C40 witness: an address with white space in front and an upper-case
\* prefix and digit was normalised, and the result normalised again; and
\* (C40_WitnessPrefixAdded) one without a prefix and with white space behind.
C40_Witness ==
    /\ norm.address = << " ", "0", "X", "A" >>
    /\ norm.results = << << "0", "x", "a" >>, << "0", "x", "a" >> >>

C40_WitnessPrefixAdded ==
    /\ norm.address = << "A", "a", " " >>
    /\ norm.results = << << "0", "x", "a", "a" >>, << "0", "x", "a", "a" >> >>

====
